---- MODULE Spec2Model ----
(***************************************************************************)
(* Verification model of the agentic-playground demo scripts.              *)
(*                                                                         *)
(* The repository is a set of independent scripts, so the module holds one *)
(* state machine per script and one specification per state machine.  A    *)
(* specification leaves the variables of the other scripts at their        *)
(* initial values.                                                         *)
(*                                                                         *)
(* Python values are tagged tuples, so that values of different Python     *)
(* types can be compared: <<"none">>, <<"int", n>>, <<"bool", b>>,         *)
(* <<"str", s>>, <<"dict", d>>.  A string s is a sequence of atoms: the    *)
(* characters the code inspects one by one ("{", "}") are atoms of their   *)
(* own, a run of characters the code never looks into is one atom.  A dict *)
(* whose keys are literals of the code is a TLA+ record; a dict whose keys *)
(* are computed (the execution context) is a function on tagged values.    *)
(* An exception is the tagged tuple <<"raise", type, str(e)>>.             *)
(***************************************************************************)
EXTENDS Integers, Sequences, FiniteSets, TLC

VARIABLES
    \* ---- task_automation.py (TaskAutomationServer)
    workflows,      \* table workflows: id -> row
    executions,     \* table executions: sequence of rows, in insertion order
    variables,      \* table variables: key -> row
    now,            \* the value datetime.now() returns
    wf_pc,          \* position inside execute_workflow
    wf_cur,         \* locals of the running execute_workflow call
    wf_ret,         \* what the last finished call returned (or raised)
    \* ---- the dispatch-table servers (example_standalone.py, baby_tracker.py, ...)
    ds_tools,       \* self.tools: name -> registration
    ds_data,        \* the server's own data (BabyTrackerServer.data["diapers"])
    ds_registered,  \* history: the register_tool calls made, in order
    ds_calls,       \* history: the handler invocations made, in order
    ds_out,         \* what the last call_tool returned (or raised)
    \* ---- mcp_server_template.py (ProductionMCPServer)
    rpc_tools,      \* self.tools: name -> handler
    rpc_resources,  \* self.resources: uri -> handler
    request_count,  \* self.request_count
    error_count,    \* self.error_count
    rpc_req,        \* the request of the last handle_request call
    rpc_resp,       \* what that call returned (or raised)
    io_pc,          \* position inside run_stdio
    io_line,        \* run_stdio: the line read last
    io_response,    \* run_stdio: the response being written
    io_buffer,      \* stdout: text written and not yet flushed
    io_stdout,      \* stdout: the lines flushed, in order
    io_read,        \* history: number of lines read from stdin
    io_handled,     \* history: the requests handle_request answered, in order
    \* ---- example_simple.py (call_tool)
    ex_in,          \* the name and arguments of the last call_tool call
    ex_out,         \* what that call returned (or raised)
    \* ---- memory_agent.py
    short_term_memory,  \* session_id -> key -> value
    long_term_memory,   \* user_id -> {"facts": [...], "preferences": [...]}
    mem_ret,            \* what the last invoke returned (or raised)
    mem_log,            \* history: the payload of each invoke the agent answered,
                        \* the context it built and the facts it extracted
    \* ---- policy_agent.py
    pol_in,         \* the payload of the invoke call, and what the agent will do
    pol_out,        \* what that call returned (or raised)
    pol_agent,      \* history: the prompts handed to the agent
    \* ---- api_gateway.py
    request_counts, \* request_counts: "<api_key>:<minute>" -> count
    gw_minute,      \* the minute datetime.now() is in, as an index of Minutes
    gw_in,          \* the payload of the last invoke call
    gw_out,         \* what that call returned (or raised)
    gw_agent,       \* history: the number of calls of the agent
    \* ---- task_automation.py (get_execution_history)
    hist_in,        \* the args of the get_execution_history call
    hist_out,       \* what that call returned (or raised)
    \* ---- bedrock_lambda_function.py (lambda_handler)
    lam_in,         \* the event of the lambda_handler call
    lam_out,        \* what that call returned (or raised)
    \* ---- the AgentCore entrypoints (my_agent.py, policy_agent.py, api_gateway.py)
    ep_in,          \* the script whose entrypoint is called, the payload, the state it is called in
    ep_out,         \* what that call returned (or raised)
    \* ---- kiro_powers_demo.py (KiroPowersAgent)
    active_powers,  \* self.active_powers
    agent_tools,    \* the tools self.agent holds: the add_tool calls made, in order
    kiro_ret,       \* what the last activate_power or deactivate_power returned
    \* ---- strands_eks_agent.py (StrandsEKSAgent.execute_task)
    eks_in,         \* the task and the context of the execute_task call
    eks_out,        \* the handler that call was routed to, or the error it returned
    \* ---- multi_agent.py (run_multi_agent)
    ma_pc,          \* the node of the graph that runs next, END, or returned
    ma_state,       \* the AgentState of the run
    ma_ret,         \* what run_multi_agent returned
    ma_log          \* the reviews made so far, each with the draft reviewed

wfVars == <<workflows, executions, variables, now, wf_pc, wf_cur, wf_ret>>
\* the variables of the workflow engine but the clock, which the scripts share
wfTables == <<workflows, executions, variables, wf_pc, wf_cur, wf_ret>>
dsVars == <<ds_tools, ds_data, ds_registered, ds_calls, ds_out>>

rpcVars == <<rpc_tools, rpc_resources, request_count, error_count, rpc_req, rpc_resp>>
ioVars == <<io_pc, io_line, io_response, io_buffer, io_stdout, io_read, io_handled>>

exVars == <<ex_in, ex_out>>
memVars == <<short_term_memory, long_term_memory, mem_ret, mem_log>>

polVars == <<pol_in, pol_out, pol_agent>>
gwVars == <<request_counts, gw_minute, gw_in, gw_out, gw_agent>>

histVars == <<hist_in, hist_out>>

lamVars == <<lam_in, lam_out>>

epVars == <<ep_in, ep_out>>

kiroVars == <<active_powers, agent_tools, kiro_ret>>

eksVars == <<eks_in, eks_out>>

maVars == <<ma_pc, ma_state, ma_ret, ma_log>>

vars == <<wfVars, dsVars, rpcVars, ioVars, exVars, memVars, polVars, gwVars, histVars, lamVars, epVars, kiroVars, eksVars, maVars>>

\* what the actions of one script leave alone: the variables of the other scripts
notWf == <<dsVars, rpcVars, ioVars, exVars, memVars, polVars, gwVars, histVars, lamVars, epVars, kiroVars, eksVars, maVars>>
notDs == <<wfTables, rpcVars, ioVars, exVars, memVars, polVars, gwVars, histVars, lamVars, epVars, kiroVars, eksVars, maVars>>
notRpc == <<wfTables, dsVars, ioVars, exVars, memVars, polVars, gwVars, histVars, lamVars, epVars, kiroVars, eksVars, maVars>>
notIo == <<wfTables, dsVars, exVars, memVars, polVars, gwVars, histVars, lamVars, epVars, kiroVars, eksVars, maVars>>
notEx == <<wfTables, dsVars, rpcVars, ioVars, memVars, polVars, gwVars, histVars, lamVars, epVars, kiroVars, eksVars, maVars>>
notMem == <<wfTables, dsVars, rpcVars, ioVars, exVars, polVars, gwVars, histVars, lamVars, epVars, kiroVars, eksVars, maVars>>
notPol == <<wfTables, dsVars, rpcVars, ioVars, exVars, memVars, gwVars, histVars, lamVars, epVars, kiroVars, eksVars, maVars>>
notGw == <<wfTables, dsVars, rpcVars, ioVars, exVars, memVars, polVars, histVars, lamVars, epVars, kiroVars, eksVars, maVars>>
notHist == <<wfTables, dsVars, rpcVars, ioVars, exVars, memVars, polVars, gwVars, lamVars, epVars, kiroVars, eksVars, maVars>>
notLam == <<wfTables, dsVars, rpcVars, ioVars, exVars, memVars, polVars, gwVars, histVars, epVars, kiroVars, eksVars, maVars>>
notEp == <<wfTables, dsVars, rpcVars, ioVars, exVars, memVars, polVars, gwVars, histVars, lamVars, kiroVars, eksVars, maVars>>
notKiro == <<wfTables, dsVars, rpcVars, ioVars, exVars, memVars, polVars, gwVars, histVars, lamVars, epVars, eksVars, maVars>>
notEks == <<wfTables, dsVars, rpcVars, ioVars, exVars, memVars, polVars, gwVars, histVars, lamVars, epVars, kiroVars, maVars>>
notMa == <<wfTables, dsVars, rpcVars, ioVars, exVars, memVars, polVars, gwVars, histVars, lamVars, epVars, kiroVars, eksVars>>

-----------------------------------------------------------------------------
(* Python values *)

None == <<"none">>
Num(n) == <<"int", n>>
Bool(b) == <<"bool", b>>
Str(s) == <<"str", s>>
Dict(d) == <<"dict", d>>
List(l) == <<"list", l>>
Raise(type, msg) == <<"raise", type, msg>>
\* a str that holds the JSON text json.dumps returned
JsonText(v) == <<"text", v>>

IsStr(v) == v[1] = "str"
IsInt(v) == v[1] = "int"
IsRaise(v) == v[1] = "raise"

\* a one-atom string
S(w) == Str(<<w>>)

\* d.get(k, default) on a record or function
Get(d, k, default) == IF k \in DOMAIN d THEN d[k] ELSE default

\* str(KeyError(k)) is the repr of the key
KeyError(k) == Raise("KeyError", <<"'", k, "'">>)

\* d[k] for a literal key k: the value, or KeyError
Item(d, k) == IF k \in DOMAIN d THEN d[k] ELSE KeyError(k)

\* two texts hashlib.md5 gives the same digest for, faad49866e9498fc1719f5289e7a0269
CollidingNameA ==
    Str(<<"TEXTCOLLBYfGiJUETHQ4hAcKSMd5zYpgqf1YRDhkmxHkhPWptrkoyz28wnI9V0aHeAuaKnak">>)
CollidingNameB ==
    Str(<<"TEXTCOLLBYfGiJUETHQ4hEcKSMd5zYpgqf1YRDhkmxHkhPWptrkoyz28wnI9V0aHeAuaKnak">>)

\* hashlib.md5(text).hexdigest(): a digest is determined by the text hashed, and
\* texts that differ may have the same digest; a digest is written as the first
\* text that has it
MD5(text) ==
    IF text = CollidingNameB THEN <<"md5", CollidingNameA>> ELSE <<"md5", text>>

-----------------------------------------------------------------------------
(* json.dumps / json.loads on the values above: the text is a token tree *)

RECURSIVE JsonDumps(_)
JsonDumps(v) ==
    CASE v[1] = "none" -> <<"null">>
      [] v[1] = "int"  -> <<"number", v[2]>>
      [] v[1] = "bool" -> IF v[2] THEN <<"true">> ELSE <<"false">>
      [] v[1] = "str"  -> <<"string", v[2]>>
      [] v[1] = "dict" -> <<"object", [k \in DOMAIN v[2] |-> JsonDumps(v[2][k])]>>
      [] v[1] = "list" -> <<"array", [i \in DOMAIN v[2] |-> JsonDumps(v[2][i])]>>
      [] v[1] = "text" -> <<"string-of-json", v[2]>>

RECURSIVE JsonLoads(_)
JsonLoads(t) ==
    CASE t[1] = "null"   -> None
      [] t[1] = "number" -> Num(t[2])
      [] t[1] = "true"   -> Bool(TRUE)
      [] t[1] = "false"  -> Bool(FALSE)
      [] t[1] = "string" -> Str(t[2])
      [] t[1] = "object" -> Dict([k \in DOMAIN t[2] |-> JsonLoads(t[2][k])])
      [] t[1] = "array"  -> List([i \in DOMAIN t[2] |-> JsonLoads(t[2][i])])
      [] t[1] = "string-of-json" -> <<"text", t[2]>>

-----------------------------------------------------------------------------
(* str(int): the decimal digits, with a leading "-" for a negative number *)

Digit(d) == CASE d = 0 -> "0" [] d = 1 -> "1" [] d = 2 -> "2" [] d = 3 -> "3"
              [] d = 4 -> "4" [] d = 5 -> "5" [] d = 6 -> "6" [] d = 7 -> "7"
              [] d = 8 -> "8" [] d = 9 -> "9"

RECURSIVE NatToStr(_)
NatToStr(n) == IF n < 10 THEN <<Digit(n)>> ELSE NatToStr(n \div 10) \o <<Digit(n % 10)>>

IntToStr(n) == IF n < 0 THEN <<"-">> \o NatToStr(-n) ELSE NatToStr(n)

\* str(v) for the values a condition may hold; str of a dict (its repr) is not modelled
PyStrOf(v) ==
    CASE v[1] = "str"  -> v[2]
      [] v[1] = "int"  -> IntToStr(v[2])
      [] v[1] = "none" -> <<"N", "o", "n", "e">>

\* needle in hay, for strings
IsSubstring(needle, hay) ==
    \E i \in 0..Len(hay) :
        /\ i + Len(needle) <= Len(hay)
        /\ SubSeq(hay, i + 1, i + Len(needle)) = needle

TypeName(v) ==
    CASE v[1] = "none" -> "NoneType" [] v[1] = "int" -> "int" [] v[1] = "bool" -> "bool"
      [] v[1] = "str" -> "str" [] v[1] = "dict" -> "dict"

\* a < b on the atoms of the strings compared (listed in code point order)
AtomOrder == <<"1", "2", "a", "admin", "b", "v">>
AtomRank(a) == CHOOSE i \in DOMAIN AtomOrder : AtomOrder[i] = a

RECURSIVE SeqLess(_, _)
SeqLess(s, t) ==
    IF t = <<>> THEN FALSE
    ELSE IF s = <<>> THEN TRUE
    ELSE IF s[1] = t[1] THEN SeqLess(Tail(s), Tail(t))
    ELSE AtomRank(s[1]) < AtomRank(t[1])

\* a < b and a > b in Python: numbers with numbers, strings with strings, else
\* TypeError
PyOrder(a, b, sym) ==
    IF IsInt(a) /\ IsInt(b)
    THEN Bool(IF sym = "<" THEN a[2] < b[2] ELSE a[2] > b[2])
    ELSE IF IsStr(a) /\ IsStr(b)
    THEN Bool(IF sym = "<" THEN SeqLess(a[2], b[2]) ELSE SeqLess(b[2], a[2]))
    ELSE Raise("TypeError", <<"'", sym, "' not supported between instances of '",
                               TypeName(a), "' and '", TypeName(b), "'">>)

-----------------------------------------------------------------------------
(* TaskAutomationServer: the step interpreter *)

\* _replace_variables: a value "{{name}}" becomes context.get(name, value)
IsPlaceholder(value) ==
    /\ IsStr(value)
    /\ Len(value[2]) >= 2
    /\ SubSeq(value[2], 1, 2) = <<"{", "{">>
    /\ SubSeq(value[2], Len(value[2]) - 1, Len(value[2])) = <<"}", "}">>

\* (mutant) a placeholder whose name is not in the context becomes None
_replace_variables_NoDefault(params, context) ==
    [key \in DOMAIN params |->
        IF IsPlaceholder(params[key])
        THEN LET var_name == Str(SubSeq(params[key][2], 3, Len(params[key][2]) - 2))
             IN  Get(context, var_name, None)
        ELSE params[key]]

_replace_variables(params, context) ==
    [key \in DOMAIN params |->
        IF IsPlaceholder(params[key])
        THEN LET var_name == Str(SubSeq(params[key][2], 3, Len(params[key][2]) - 2))
             IN  Get(context, var_name, params[key])
        ELSE params[key]]

_http_request(params) ==
    Dict([status |-> Num(200), url |-> Get(params, "url", None),
          method |-> Get(params, "method", S("GET")), simulated |-> Bool(TRUE)])

\* _set_variable: INSERT OR REPLACE INTO variables; KeyError before any write
SetVariableResult(params) ==
    IF "key" \notin DOMAIN params THEN KeyError("key")
    ELSE IF "value" \notin DOMAIN params THEN KeyError("value")
    ELSE Dict([key |-> params["key"], value |-> params["value"]])

\* (mutant) INSERT OR IGNORE: a key that has a row keeps it
SetVariableStore_Ignore(params, store, time) ==
    IF "key" \in DOMAIN params /\ "value" \in DOMAIN params
    THEN [k \in DOMAIN store \cup {params["key"]} |->
            IF k = params["key"] /\ k \notin DOMAIN store
            THEN [value |-> JsonDumps(params["value"]), updated_at |-> time]
            ELSE store[k]]
    ELSE store

SetVariableStore(params, store, time) ==
    IF "key" \in DOMAIN params /\ "value" \in DOMAIN params
    THEN [k \in DOMAIN store \cup {params["key"]} |->
            IF k = params["key"]
            THEN [value |-> JsonDumps(params["value"]), updated_at |-> time]
            ELSE store[k]]
    ELSE store

\* _get_variable: the stored text parsed, None when there is no row
_get_variable(params, store) ==
    IF "key" \notin DOMAIN params THEN KeyError("key")
    ELSE IF params["key"] \in DOMAIN store THEN JsonLoads(store[params["key"]].value)
    ELSE None

_delay(params) == Dict([delayed |-> Get(params, "seconds", Num(1))])

_log(params) == Dict([logged |-> Get(params, "message", None)])

\* step.get("params", {}) with the placeholders replaced
StepParams(step, context) ==
    _replace_variables(Get(step[2], "params", Dict(<<>>))[2], context)

\* (mutant) an unknown action raises
ActionResult_Raises(action, params, store) ==
    CASE action = S("http_request") -> _http_request(params)
      [] action = S("set_variable") -> SetVariableResult(params)
      [] action = S("get_variable") -> _get_variable(params, store)
      [] action = S("delay")        -> _delay(params)
      [] action = S("log")          -> _log(params)
      [] OTHER -> Raise("ValueError", <<"Unknown action: ">> \o PyStrOf(action))

\* the branches of _execute_step: what the action returns (or raises)
ActionResult(action, params, store) ==
    CASE action = S("http_request") -> _http_request(params)
      [] action = S("set_variable") -> SetVariableResult(params)
      [] action = S("get_variable") -> _get_variable(params, store)
      [] action = S("delay")        -> _delay(params)
      [] action = S("log")          -> _log(params)
      [] OTHER -> Dict([error |-> Str(<<"Unknown action: ">> \o PyStrOf(action))])

\* _execute_step: the value returned (or the exception raised) by the step
_execute_step(step, context, store) ==
    IF "action" \notin DOMAIN step[2] THEN KeyError("action")
    ELSE ActionResult(step[2]["action"], StepParams(step, context), store)

\* the variables table after the step: only set_variable writes it
StepStore(step, context, store, time) ==
    IF "action" \in DOMAIN step[2] /\ step[2]["action"] = S("set_variable")
    THEN SetVariableStore(StepParams(step, context), store, time)
    ELSE store

\* (mutant) a condition whose variable is absent from the context is met
_check_condition_AbsentTrue(condition, context) ==
    IF condition = None \/ condition = Dict(<<>>) THEN Bool(TRUE)
    ELSE LET c == condition[2]
             var == Get(c, "variable", None)
             operator == Get(c, "operator", None)
             value == Get(c, "value", None)
         IN  IF var \notin DOMAIN context THEN Bool(TRUE)
             ELSE LET ctx_value == context[var]
                  IN  CASE operator = S("equals") -> Bool(ctx_value = value)
                        [] operator = S("not_equals") -> Bool(ctx_value # value)
                        [] operator = S("greater_than") -> PyOrder(ctx_value, value, ">")
                        [] operator = S("less_than") -> PyOrder(ctx_value, value, "<")
                        [] operator = S("contains") ->
                             IF IsStr(value)
                             THEN Bool(IsSubstring(value[2], PyStrOf(ctx_value)))
                             ELSE Raise("TypeError",
                                        <<"'in <string>' requires string as left operand, not ",
                                          TypeName(value)>>)
                        [] OTHER -> Bool(TRUE)

\* _check_condition: Bool(..), or the exception the comparison raises
_check_condition(condition, context) ==
    IF condition = None \/ condition = Dict(<<>>) THEN Bool(TRUE)
    ELSE LET c == condition[2]
             var == Get(c, "variable", None)
             operator == Get(c, "operator", None)
             value == Get(c, "value", None)
         IN  IF var \notin DOMAIN context THEN Bool(FALSE)
             ELSE LET ctx_value == context[var]
                  IN  CASE operator = S("equals") -> Bool(ctx_value = value)
                        [] operator = S("not_equals") -> Bool(ctx_value # value)
                        [] operator = S("greater_than") -> PyOrder(ctx_value, value, ">")
                        [] operator = S("less_than") -> PyOrder(ctx_value, value, "<")
                        [] operator = S("contains") ->
                             IF IsStr(value)
                             THEN Bool(IsSubstring(value[2], PyStrOf(ctx_value)))
                             ELSE Raise("TypeError",
                                        <<"'in <string>' requires string as left operand, not ",
                                          TypeName(value)>>)
                        [] OTHER -> Bool(TRUE)

-----------------------------------------------------------------------------
(* TaskAutomationServer: the inputs the model draws from *)

MaxExecs == 2       \* executions started in one run of the model
MaxClock == 2       \* the clock takes the values 0..MaxClock

WorkflowNames == {S("daily")}

StepLog == Dict([action |-> S("log"), params |-> Dict([message |-> S("start")])])
StepSet == Dict([action |-> S("set_variable"),
                 params |-> Dict([key |-> S("k1"), value |-> Num(1)]),
                 output_var |-> S("r")])
StepHttp == Dict([action |-> S("http_request"),
                  params |-> Dict([url |-> S("https://api.example.com/data"),
                                   method |-> S("GET")]),
                  output_var |-> S("api_response")])
\* stops the workflow unless the variable k1 holds 1
StepGetIf == Dict([action |-> S("get_variable"),
                   params |-> Dict([key |-> S("k1")]),
                   output_var |-> S("x"),
                   condition |-> Dict([variable |-> S("x"), operator |-> S("equals"),
                                       value |-> Num(1)])])
StepUnknown == Dict([action |-> S("send_email"), params |-> Dict(<<>>)])
\* raises KeyError('key') in _get_variable
StepGetNoKey == Dict([action |-> S("get_variable"), params |-> Dict(<<>>)])
\* binds x to the caller's user, or leaves the placeholder when there is none
StepSetUser == Dict([action |-> S("set_variable"),
                     params |-> Dict([key |-> S("k2"),
                                      value |-> Str(<<"{", "{", "user", "}", "}">>)]),
                     output_var |-> S("u")])
\* the condition compares a dict with a number: TypeError in _check_condition
StepGreater == Dict([action |-> S("delay"),
                     params |-> Dict([seconds |-> Num(2)]),
                     output_var |-> S("d"),
                     condition |-> Dict([variable |-> S("d"),
                                         operator |-> S("greater_than"),
                                         value |-> Num(1)])])
\* raises KeyError('action') in _execute_step
StepNoAction == Dict([params |-> Dict(<<>>)])

\* the step lists create_workflow is called with
Programs ==
    { List(<<>>),
      List(<<StepLog, StepSet, StepHttp>>),
      List(<<StepGetIf, StepUnknown, StepGetNoKey>>),
      List(<<StepSetUser, StepGreater, StepLog>>),
      List(<<StepNoAction>>) }

\* the context execute_workflow is called with
Contexts == { <<>>, (S("user") :> S("admin")) }

-----------------------------------------------------------------------------
(* TaskAutomationServer: the tables and the operations *)

WorkflowRow(args, time) ==
    [id |-> MD5(args.name), name |-> args.name,
     description |-> Get(args, "description", Str(<<>>)),
     trigger_type |-> args.trigger_type,
     trigger_config |-> JsonDumps(Get(args, "trigger_config", Dict(<<>>))),
     steps |-> JsonDumps(args.steps), enabled |-> 1, created_at |-> time]

\* INSERT OR REPLACE INTO workflows: the row with the same id is replaced
InsertOrReplaceWorkflow(table, row) ==
    [id \in DOMAIN table \cup {row.id} |-> IF id = row.id THEN row ELSE table[id]]

\* create_workflow(args)
create_workflow(args) ==
    /\ wf_pc = "idle"
    /\ workflows' = InsertOrReplaceWorkflow(workflows, WorkflowRow(args, now))
    /\ wf_ret' = Dict([workflow_id |-> MD5(args.name), name |-> args.name,
                       steps |-> Num(Len(args.steps[2])),
                       message |-> S("Workflow created successfully")])
    /\ UNCHANGED <<executions, variables, now, wf_pc, wf_cur, notWf>>

ExecIds(table) == {table[n].id : n \in DOMAIN table}

\* the row the INSERT of execute_workflow adds
RunningRow(exec_id, workflow_id, started) ==
    [id |-> exec_id, workflow_id |-> workflow_id, status |-> S("running"),
     started_at |-> Num(started), completed_at |-> None, result |-> None, error |-> None]

\* UPDATE executions SET status, completed_at, result WHERE id
MarkCompleted(table, exec_id, completed, results) ==
    [n \in DOMAIN table |->
        IF table[n].id = exec_id
        THEN [table[n] EXCEPT !.status = S("completed"), !.completed_at = Num(completed),
                              !.result = JsonDumps(List(results))]
        ELSE table[n]]

\* (mutant) the except branch forgets the UPDATE
MarkFailed_NoUpdate(table, exec_id, completed, error) == table

\* UPDATE executions SET status, completed_at, error WHERE id
MarkFailed(table, exec_id, completed, error) ==
    [n \in DOMAIN table |->
        IF table[n].id = exec_id
        THEN [table[n] EXCEPT !.status = S("failed"), !.completed_at = Num(completed),
                              !.error = Str(error)]
        ELSE table[n]]

\* the value returned by the except branch
FailedReturn(exec_id, error, results) ==
    Dict([execution_id |-> exec_id, status |-> S("failed"), error |-> Str(error),
          steps_executed |-> Num(Len(results))])

\* the value returned after the loop
CompletedReturn(exec_id, name, results) ==
    Dict([execution_id |-> exec_id, workflow |-> name, status |-> S("completed"),
          steps_executed |-> Num(Len(results)), results |-> List(results)])

\* (mutant) the entry carries the enumerate index itself
ResultEntry_ZeroBased(i, step, step_result) ==
    Dict([step |-> Num(i - 1), action |-> step[2]["action"], result |-> step_result])

\* the entry appended to results for the step at position i (enumerate index i - 1)
ResultEntry(i, step, step_result) ==
    Dict([step |-> Num((i - 1) + 1), action |-> step[2]["action"], result |-> step_result])

\* execute_workflow, up to the INSERT of the execution record
ExecuteBegin(args) ==
    /\ wf_pc = "idle"
    /\ Len(executions) < MaxExecs
    /\ LET workflow_id == args.workflow_id
           context == Get(args, "context", <<>>)
           exec_id == MD5(<<workflow_id, now>>)
       IN  IF ~(workflow_id \in DOMAIN workflows /\ workflows[workflow_id].enabled = 1)
           THEN /\ wf_ret' = Dict([error |-> S("Workflow not found or disabled")])
                /\ UNCHANGED <<executions, wf_pc, wf_cur>>
           ELSE IF exec_id \in ExecIds(executions)
           THEN \* PRIMARY KEY id: the INSERT raises, before the try block
                /\ wf_ret' = Raise("IntegrityError",
                                   <<"UNIQUE constraint failed: executions.id">>)
                /\ UNCHANGED <<executions, wf_pc, wf_cur>>
           ELSE /\ executions' = Append(executions, RunningRow(exec_id, workflow_id, now))
                /\ wf_cur' = [exec_id |-> exec_id, workflow_id |-> workflow_id,
                              name |-> workflows[workflow_id].name,
                              steps |-> JsonLoads(workflows[workflow_id].steps)[2],
                              context |-> context, results |-> <<>>, i |-> 1]
                /\ wf_pc' = "steps"
                /\ UNCHANGED wf_ret
    /\ UNCHANGED <<workflows, variables, now, notWf>>

\* the except branch: the record is marked failed and a failed result returned
ExecuteFail(error, results) ==
    /\ executions' = MarkFailed(executions, wf_cur.exec_id, now, error)
    /\ wf_ret' = FailedReturn(wf_cur.exec_id, error, results)
    /\ wf_pc' = "idle"
    /\ wf_cur' = <<>>

\* one iteration of the for loop of execute_workflow
ExecuteStep ==
    /\ wf_pc = "steps"
    /\ wf_cur.i <= Len(wf_cur.steps)
    /\ LET step == wf_cur.steps[wf_cur.i]
           step_result == _execute_step(step, wf_cur.context, variables)
           results == Append(wf_cur.results, ResultEntry(wf_cur.i, step, step_result))
           context == IF "output_var" \in DOMAIN step[2]
                      THEN [v \in DOMAIN wf_cur.context \cup {step[2]["output_var"]} |->
                              IF v = step[2]["output_var"] THEN step_result
                              ELSE wf_cur.context[v]]
                      ELSE wf_cur.context
           cond == _check_condition(Get(step[2], "condition", None), context)
       IN  /\ variables' = StepStore(step, wf_cur.context, variables, now)
           /\ IF IsRaise(step_result)
              THEN ExecuteFail(step_result[3], wf_cur.results)
              ELSE IF IsRaise(cond)
              THEN ExecuteFail(cond[3], results)
              ELSE /\ wf_cur' = [wf_cur EXCEPT !.results = results, !.context = context,
                                               !.i = IF cond[2] THEN @ + 1 ELSE @]
                   /\ wf_pc' = IF cond[2] /\ wf_cur.i < Len(wf_cur.steps)
                               THEN "steps" ELSE "finish"
                   /\ UNCHANGED <<executions, wf_ret>>
    /\ UNCHANGED <<workflows, now, notWf>>

\* after the loop (also when the list of steps is empty): mark completed and return
ExecuteFinish ==
    /\ \/ wf_pc = "finish"
       \/ wf_pc = "steps" /\ wf_cur.i > Len(wf_cur.steps)
    /\ executions' = MarkCompleted(executions, wf_cur.exec_id, now, wf_cur.results)
    /\ wf_ret' = CompletedReturn(wf_cur.exec_id, wf_cur.name, wf_cur.results)
    /\ wf_pc' = "idle"
    /\ wf_cur' = <<>>
    /\ UNCHANGED <<workflows, variables, now, notWf>>

\* time passes between two calls of datetime.now()
Tick ==
    /\ now < MaxClock
    /\ now' = now + 1
    /\ UNCHANGED <<workflows, executions, variables, wf_pc, wf_cur, wf_ret, notWf>>

WfInit ==
    /\ workflows = <<>>
    /\ executions = <<>>
    /\ variables = <<>>
    /\ now = 0
    /\ wf_pc = "idle"
    /\ wf_cur = <<>>
    /\ wf_ret = None

WfNext ==
    \/ \E name \in WorkflowNames, steps \in Programs :
          create_workflow([name |-> name, trigger_type |-> S("manual"), steps |-> steps])
    \/ \E name \in WorkflowNames, context \in Contexts :
          ExecuteBegin([workflow_id |-> MD5(name), context |-> context])
    \/ ExecuteStep
    \/ ExecuteFinish
    \/ Tick

-----------------------------------------------------------------------------
(* Properties of execute_workflow *)

Last(seq) == seq[Len(seq)]

\* the steps stored for a workflow, as execute_workflow reads them
StoredSteps(workflow_id) == JsonLoads(workflows[workflow_id].steps)[2]

ExecRows(table, exec_id) == {n \in DOMAIN table : table[n].id = exec_id}

\* execute_workflow returns (or raises) in this step
Returns == wf_pc # "idle" /\ wf_pc' = "idle"

\* the exception the current loop iteration runs into, None when there is none
PendingException ==
    IF wf_pc = "steps" /\ wf_cur.i <= Len(wf_cur.steps)
    THEN LET step == wf_cur.steps[wf_cur.i]
             step_result == _execute_step(step, wf_cur.context, variables)
             context == IF "output_var" \in DOMAIN step[2]
                        THEN (step[2]["output_var"] :> step_result) @@ wf_cur.context
                        ELSE wf_cur.context
             cond == IF IsRaise(step_result) THEN Bool(TRUE)
                     ELSE _check_condition(Get(step[2], "condition", None), context)
         IN  IF IsRaise(step_result) THEN step_result
             ELSE IF IsRaise(cond) THEN cond ELSE None
    ELSE None

\* C1: execute_workflow runs the stored steps in list order, each at most once and
\* never going back: every loop iteration appends the entry of the next stored step
\* and the position never decreases; in the value returned the i-th result has
\* step = i and the action of the i-th stored step, and steps_executed is at most
\* the number of stored steps.
C1_StepsInOrder ==
    [][ /\ (wf_pc = "steps" /\ wf_pc' # "idle" /\ wf_cur' # wf_cur) =>
              /\ wf_cur'.i \in {wf_cur.i, wf_cur.i + 1}
              /\ wf_cur.i = Len(wf_cur.results) + 1
              /\ Len(wf_cur'.results) = Len(wf_cur.results) + 1
              /\ Last(wf_cur'.results)[2].action
                    = StoredSteps(wf_cur.workflow_id)[wf_cur.i][2].action
              /\ wf_cur'.i = wf_cur.i => wf_pc' = "finish"
        /\ Returns =>
              LET stored == StoredSteps(wf_cur.workflow_id)
                  ret == wf_ret'[2]
              IN  /\ ret.steps_executed[2] <= Len(stored)
                  /\ "results" \in DOMAIN ret =>
                        /\ Len(ret.results[2]) = ret.steps_executed[2]
                        /\ \A k \in 1..Len(ret.results[2]) :
                              /\ ret.results[2][k][2].step = Num(k)
                              /\ ret.results[2][k][2].action = stored[k][2].action
      ]_vars

\* witness of C1: a call returned the results of three steps
C1_Witness ==
    /\ wf_pc = "idle"
    /\ wf_ret[1] = "dict"
    /\ "results" \in DOMAIN wf_ret[2]
    /\ Len(wf_ret[2].results[2]) = 3

\* C2: an execution record starts 'running'; when the call returns the record holds
\* the terminal status ('completed' or 'failed') of the returned value, with
\* completed_at set; a raising step or condition makes the call return status
\* 'failed' with the error text and marks the record 'failed'; no record is left
\* 'running' once the call has returned.
C2_ExecutionStatus ==
    [][ /\ executions' # executions /\ Len(executions') # Len(executions) =>
              /\ Len(executions') = Len(executions) + 1
              /\ Last(executions').status = S("running")
              /\ Last(executions').completed_at = None
              /\ Last(executions').id \notin ExecIds(executions)
        /\ Returns =>
              /\ wf_ret'[1] = "dict"
              /\ wf_ret'[2].execution_id = wf_cur.exec_id
              /\ wf_ret'[2].status \in {S("completed"), S("failed")}
              /\ Cardinality(ExecRows(executions', wf_cur.exec_id)) = 1
              /\ \A n \in ExecRows(executions', wf_cur.exec_id) :
                    /\ executions'[n].status = wf_ret'[2].status
                    /\ executions'[n].completed_at # None
        /\ (PendingException # None /\ wf_cur' # wf_cur) =>
              /\ Returns
              /\ wf_ret'[2].status = S("failed")
              /\ wf_ret'[2].error = Str(PendingException[3])
              /\ \A n \in ExecRows(executions', wf_cur.exec_id) :
                    /\ executions'[n].status = S("failed")
                    /\ executions'[n].error = Str(PendingException[3])
        /\ wf_pc' = "idle" =>
              \A n \in DOMAIN executions' : executions'[n].status # S("running")
      ]_vars

\* witness of C2: a step raised KeyError('key') and the call returned 'failed'
C2_Witness ==
    /\ wf_pc = "idle"
    /\ wf_ret[1] = "dict"
    /\ "status" \in DOMAIN wf_ret[2]
    /\ wf_ret[2].status = S("failed")
    /\ wf_ret[2].error = Str(<<"'", "key", "'">>)
    /\ \E n \in DOMAIN executions :
          /\ executions[n].id = wf_ret[2].execution_id
          /\ executions[n].status = S("failed")

-----------------------------------------------------------------------------
(* The dispatch-table servers: SimpleMCPServer, TaskAutomationServer,          *)
(* KnowledgeBaseServer, BabyTrackerServer, SleepScheduleServer and             *)
(* ParentHelperServer share register_tool and call_tool word for word.  The    *)
(* model registers one handler that only computes (add_handler) and one that   *)
(* changes the server's data (log_diaper).                                     *)

MaxCalls == 2       \* handler invocations in one run of the model
MaxRegs == 3        \* register_tool calls in one run of the model

ToolNames == {"add", "log_diaper"}
UnregisteredNames == {"subtract"}
Handlers == {"add_handler", "log_diaper"}

\* the arguments call_tool is called with
ArgSets ==
    { <<>>, [a |-> Num(5)], [a |-> Num(5), b |-> Num(3)], [type |-> S("wet")] }

\* add_handler (example_standalone.py)
add_handler(args) ==
    IF "a" \notin DOMAIN args THEN KeyError("a")
    ELSE IF "b" \notin DOMAIN args THEN KeyError("b")
    ELSE LET result == args["a"][2] + args["b"][2]
         IN  Dict([result |-> Num(result),
                   text |-> Str(<<"Result: ">> \o IntToStr(result))])

\* log_diaper (baby_tracker.py): the value returned
log_diaper(args, time) ==
    IF "type" \notin DOMAIN args THEN KeyError("type")
    ELSE Dict([result |-> S("logged"),
               text |-> Str(<<"Logged ">> \o args["type"][2] \o <<" diaper at ", time>>)])

\* log_diaper: server.data["diapers"] after the call
log_diaper_data(args, data, time) ==
    IF "type" \notin DOMAIN args THEN data
    ELSE Append(data, [time |-> time, type |-> args["type"]])

\* what the handler returns (or raises)
HandlerResult(handler, args, time) ==
    CASE handler = "add_handler" -> add_handler(args)
      [] handler = "log_diaper"  -> log_diaper(args, time)

\* the server's data after the handler ran
HandlerData(handler, args, data, time) ==
    CASE handler = "add_handler" -> data
      [] handler = "log_diaper"  -> log_diaper_data(args, data, time)

\* (mutant) a name that is already registered keeps its first handler
Registration_KeepFirst(table, name, description, handler, schema) ==
    IF name \in DOMAIN table THEN table
    ELSE (name :> [name |-> name, description |-> description, handler |-> handler,
                   inputSchema |-> schema]) @@ table

\* self.tools[name] = {...}
Registration(table, name, description, handler, schema) ==
    [n \in DOMAIN table \cup {name} |->
        IF n = name
        THEN [name |-> name, description |-> description, handler |-> handler,
              inputSchema |-> schema]
        ELSE table[n]]

\* register_tool(name, description, handler, schema)
register_tool(name, description, handler, schema) ==
    /\ Len(ds_registered) < MaxRegs
    /\ ds_tools' = Registration(ds_tools, name, description, handler, schema)
    /\ ds_registered' = Append(ds_registered, <<name, handler>>)
    /\ UNCHANGED <<ds_data, ds_calls, ds_out, now, notDs>>

\* call_tool(name, arguments)
call_tool(name, arguments) ==
    /\ Len(ds_calls) < MaxCalls
    /\ IF name \notin DOMAIN ds_tools
       THEN /\ ds_out' = Dict([error |-> Str(<<"Unknown tool: ", name>>)])
            /\ UNCHANGED <<ds_data, ds_calls>>
       ELSE LET handler == ds_tools[name]["handler"]
            IN  \* return handler(arguments): an exception of the handler propagates
                /\ ds_calls' = Append(ds_calls, <<handler, arguments>>)
                /\ ds_data' = HandlerData(handler, arguments, ds_data, now)
                /\ ds_out' = HandlerResult(handler, arguments, now)
    /\ UNCHANGED <<ds_tools, ds_registered, now, notDs>>

DsInit ==
    /\ ds_tools = <<>>
    /\ ds_data = <<>>
    /\ ds_registered = <<>>
    /\ ds_calls = <<>>
    /\ ds_out = None

DsNext ==
    \/ \E name \in ToolNames, handler \in Handlers :
          register_tool(name, "description", handler, "schema")
    \/ \E name \in ToolNames \cup UnregisteredNames, arguments \in ArgSets :
          call_tool(name, arguments)

-----------------------------------------------------------------------------
(* Properties of call_tool *)

\* the handler of the last register_tool call made under the name
LastRegistered(name) ==
    LET made == {n \in DOMAIN ds_registered : ds_registered[n][1] = name}
    IN  ds_registered[CHOOSE n \in made : \A m \in made : m <= n][2]

\* C3: call_tool with a registered name invokes the handler last registered under
\* that name, once, with the arguments given, and returns what the handler
\* returns; with an unregistered name it returns {"error": "Unknown tool: <name>"},
\* invokes no handler and changes nothing of the server.
C3_Dispatch ==
    [][ \A name \in ToolNames \cup UnregisteredNames, arguments \in ArgSets :
          call_tool(name, arguments) =>
            IF \E n \in DOMAIN ds_registered : ds_registered[n][1] = name
            THEN /\ ds_calls' = Append(ds_calls, <<LastRegistered(name), arguments>>)
                 /\ ds_out' = HandlerResult(LastRegistered(name), arguments, now)
                 /\ ds_tools' = ds_tools
            ELSE /\ ds_out' = Dict([error |-> Str(<<"Unknown tool: ", name>>)])
                 /\ UNCHANGED <<ds_tools, ds_data, ds_calls>>
      ]_vars

\* witness of C3: a name registered twice was called and the second handler ran
C3_Witness ==
    /\ \E n, m \in DOMAIN ds_registered :
          /\ n < m
          /\ ds_registered[n][1] = "add" /\ ds_registered[n][2] = "log_diaper"
          /\ ds_registered[m][1] = "add" /\ ds_registered[m][2] = "add_handler"
    /\ ds_calls # <<>>
    /\ Last(ds_calls) = <<"add_handler", [a |-> Num(5), b |-> Num(3)]>>
    /\ ds_out = Dict([result |-> Num(8), text |-> Str(<<"Result: ", "8">>)])

\* C4 (as claimed): no exception of a handler reaches the caller of call_tool
C4_NoExceptionEscapes == ~IsRaise(ds_out)

-----------------------------------------------------------------------------
(* ProductionMCPServer: handle_request and the handlers it dispatches to *)

MaxRequests == 3    \* handle_request calls in one run of the model

AttributeErrorNone ==
    Raise("AttributeError", <<"'NoneType' object has no attribute 'get'">>)

\* example_tool_handler(args)
example_tool_handler(args, time) ==
    LET message == Get(args[2], "message", Str(<<"H", "e", "l", "l", "o">>))
    IN  IF IsStr(message)
        THEN Dict([echo |-> message, length |-> Num(Len(message[2])),
                   timestamp |-> Num(time)])
        ELSE Raise("TypeError", <<"object of type '", TypeName(message), "' has no len()">>)

\* example_resource_handler(): the statistics of a fresh server, as JSON text
example_resource_handler ==
    JsonText(JsonDumps(Dict([name |-> S("example"), version |-> S("1.0.0"),
                             uptime_seconds |-> Num(0), requests |-> Num(0),
                             errors |-> Num(0), tools |-> Num(0),
                             resources |-> Num(0)])))

\* the handler registered under a tool name, called with the arguments
CallToolHandler(handler, arguments, time) ==
    CASE handler = "example_tool_handler" -> example_tool_handler(arguments, time)

\* name in self.tools, self.tools[name]: the tables keep their insertion order
Keys(table, key) == {table[n][key] : n \in DOMAIN table}
Entry(table, key, k) == table[CHOOSE n \in DOMAIN table : table[n][key] = k]

\* handle_initialize(params)
handle_initialize(params, tools, resources) ==
    IF params = None THEN AttributeErrorNone
    ELSE Dict([protocolVersion |-> S("2024-11-05"),
               serverInfo |-> Dict([name |-> S("production-example"),
                                    version |-> S("1.0.0")]),
               capabilities |-> Dict([
                   tools |-> IF tools # <<>>
                             THEN Dict([listChanged |-> Bool(TRUE)]) ELSE Dict(<<>>),
                   resources |-> IF resources # <<>>
                                 THEN Dict([subscribe |-> Bool(TRUE),
                                            listChanged |-> Bool(TRUE)])
                                 ELSE Dict(<<>>),
                   prompts |-> Dict(<<>>),
                   logging |-> Dict(<<>>)])])

\* handle_tools_list()
handle_tools_list(tools) ==
    Dict([tools |-> List([n \in DOMAIN tools |->
                            Dict([name |-> tools[n].name,
                                  description |-> tools[n].description,
                                  inputSchema |-> tools[n].inputSchema])])])

\* handle_tools_call(params): the result, or the exception it raises
handle_tools_call(params, tools, time) ==
    IF params = None THEN AttributeErrorNone
    ELSE LET tool_name == Get(params[2], "name", None)
             arguments == Get(params[2], "arguments", Dict(<<>>))
         IN  IF tool_name \notin Keys(tools, "name")
             THEN Raise("ValueError", <<"Unknown tool: ">> \o PyStrOf(tool_name))
             ELSE LET result == CallToolHandler(Entry(tools, "name", tool_name).handler,
                                                arguments, time)
                  IN  IF IsRaise(result) THEN result
                      ELSE Dict([content |-> List(<<Dict([type |-> S("text"),
                                                          text |-> JsonText(JsonDumps(result))])>>)])

\* handle_resources_list()
handle_resources_list(resources) ==
    Dict([resources |-> List([n \in DOMAIN resources |->
                                Dict([uri |-> resources[n].uri,
                                      name |-> resources[n].name,
                                      description |-> resources[n].description,
                                      mimeType |-> resources[n].mimeType])])])

\* the handler registered for a resource, called
CallResourceHandler(handler) ==
    CASE handler = "example_resource_handler" -> example_resource_handler

\* handle_resources_read(params): the result, or the exception it raises
handle_resources_read(params, resources) ==
    IF params = None THEN AttributeErrorNone
    ELSE LET uri == Get(params[2], "uri", None)
         IN  IF uri \notin Keys(resources, "uri")
             THEN Raise("ValueError", <<"Unknown resource: ">> \o PyStrOf(uri))
             ELSE LET resource == Entry(resources, "uri", uri)
                  IN  Dict([contents |-> List(<<Dict([uri |-> uri,
                                mimeType |-> resource.mimeType,
                                text |-> CallResourceHandler(resource.handler)])>>)])

\* (mutant) the dispatch of handle_request without the ping branch
MethodResult_NoPing(method, params, tools, resources, time) ==
    CASE method = S("initialize")     -> handle_initialize(params, tools, resources)
      [] method = S("tools/list")     -> handle_tools_list(tools)
      [] method = S("tools/call")     -> handle_tools_call(params, tools, time)
      [] method = S("resources/list") -> handle_resources_list(resources)
      [] method = S("resources/read") -> handle_resources_read(params, resources)
      [] OTHER -> Raise("ValueError", <<"Unknown method: ">> \o PyStrOf(method))

\* the if/elif chain of handle_request: the result, or the exception raised
MethodResult(method, params, tools, resources, time) ==
    CASE method = S("initialize")     -> handle_initialize(params, tools, resources)
      [] method = S("tools/list")     -> handle_tools_list(tools)
      [] method = S("tools/call")     -> handle_tools_call(params, tools, time)
      [] method = S("resources/list") -> handle_resources_list(resources)
      [] method = S("resources/read") -> handle_resources_read(params, resources)
      [] method = S("ping")           -> Dict(<<>>)
      [] OTHER -> Raise("ValueError", <<"Unknown method: ">> \o PyStrOf(method))

\* the value handle_request returns
Response(request, tools, resources, time) ==
    LET method == Get(request, "method", None)
        params == Get(request, "params", Dict(<<>>))
        request_id == Get(request, "id", None)
        result == MethodResult(method, params, tools, resources, time)
    IN  IF IsRaise(result)
        THEN Dict([jsonrpc |-> S("2.0"), id |-> request_id,
                   error |-> Dict([code |-> Num(-32603), message |-> Str(result[3])])])
        ELSE Dict([jsonrpc |-> S("2.0"), id |-> request_id, result |-> result])

\* self.error_count after the call: handle_tools_call and handle_resources_read
\* count an unknown name and a raising handler, the other failures are not counted
ErrorCount(request, tools, resources, time, count) ==
    LET method == Get(request, "method", None)
        params == Get(request, "params", Dict(<<>>))
    IN  IF /\ method \in {S("tools/call"), S("resources/read")}
           /\ params # None
           /\ IsRaise(MethodResult(method, params, tools, resources, time))
        THEN count + 1 ELSE count

\* the request objects handle_request is called with
Methods == {S("initialize"), S("tools/list"), S("tools/call"), S("resources/list"),
            S("resources/read"), S("ping"), S("shutdown")}

ParamSets ==
    { None, Dict(<<>>),
      Dict([name |-> S("echo"), arguments |-> Dict([message |-> Str(<<"h", "i">>)])]),
      Dict([name |-> S("echo"), arguments |-> Dict([message |-> Num(5)])]),
      Dict([name |-> S("echo")]),
      Dict([name |-> S("remove_all")]),
      Dict([uri |-> S("stats://server")]),
      Dict([uri |-> S("stats://unknown")]) }

Requests ==
    {[method |-> m, params |-> p, id |-> Num(1)] : m \in Methods, p \in ParamSets}
    \cup {[method |-> m, id |-> S("req-2")] : m \in Methods}
    \cup {[method |-> m] : m \in Methods}
    \cup {[id |-> Num(3)], <<>>}

\* handle_request(request)
handle_request(request) ==
    /\ request_count' = request_count + 1
    /\ error_count' = ErrorCount(request, rpc_tools, rpc_resources, now, error_count)
    /\ rpc_req' = request
    /\ rpc_resp' = Response(request, rpc_tools, rpc_resources, now)
    /\ UNCHANGED <<rpc_tools, rpc_resources, now>>

\* the state after main() registered the example tool and resource
RpcInit ==
    /\ rpc_tools = << [name |-> S("echo"),
                       description |-> S("Echo a message with metadata"),
                       handler |-> "example_tool_handler",
                       inputSchema |-> Dict([type |-> S("object"),
                                             required |-> List(<<S("message")>>)])] >>
    /\ rpc_resources = << [uri |-> S("stats://server"), name |-> S("Server Statistics"),
                           description |-> S("Current server statistics and metrics"),
                           mimeType |-> S("application/json"),
                           handler |-> "example_resource_handler"] >>
    /\ request_count = 0
    /\ error_count = 0
    /\ rpc_req = <<>>
    /\ rpc_resp = None

\* a client calls handle_request
RpcCall(request) ==
    /\ request_count < MaxRequests
    /\ handle_request(request)
    /\ UNCHANGED notRpc

RpcNext == \E request \in Requests : RpcCall(request)

-----------------------------------------------------------------------------
(* ProductionMCPServer: run_stdio *)

MaxLines == 3       \* lines stdin holds before its end

EndOfFile == <<"eof">>
InvalidJson == <<"invalid">>

\* the lines stdin delivers: the end of the file, text that is no JSON, a JSON
\* value that is no object, and request objects
StdioRequests ==
    { [method |-> S("ping"), id |-> Num(1)],
      [method |-> S("tools/call"), id |-> Num(2),
       params |-> Dict([name |-> S("echo"),
                        arguments |-> Dict([message |-> Str(<<"h", "i">>)])])],
      [method |-> S("shutdown")] }

Lines ==
    {EndOfFile, InvalidJson, <<"json", List(<<>>)>>}
    \cup {<<"json", Dict(r)>> : r \in StdioRequests}

\* line = sys.stdin.readline(); an empty line is the end of the input
StdioRead ==
    /\ io_pc = "read"
    /\ \E line \in (IF io_read < MaxLines THEN Lines ELSE {EndOfFile}) :
          /\ io_line' = line
          /\ io_pc' = IF line = EndOfFile THEN "stopped" ELSE "parse"
    /\ io_read' = io_read + 1
    /\ UNCHANGED <<io_response, io_buffer, io_stdout, io_handled, rpcVars, now, notIo>>

\* request = json.loads(line); response = await self.handle_request(request)
StdioHandle ==
    /\ io_pc = "parse"
    /\ IF io_line = InvalidJson
       THEN \* json.JSONDecodeError: logged, continue
            /\ io_pc' = "read"
            /\ UNCHANGED <<io_response, io_handled, rpcVars>>
       ELSE IF io_line[2][1] # "dict"
       THEN \* request.get raises AttributeError outside the try of handle_request:
            \* neither except clause of run_stdio catches it, the loop ends
            /\ io_pc' = "crashed"
            /\ request_count' = request_count + 1
            /\ UNCHANGED <<io_response, io_handled, rpc_tools, rpc_resources,
                           error_count, rpc_req, rpc_resp>>
       ELSE /\ handle_request(io_line[2][2])
            /\ io_response' = rpc_resp'
            /\ io_handled' = Append(io_handled, io_line[2])
            /\ io_pc' = "write"
    /\ UNCHANGED <<io_line, io_buffer, io_stdout, io_read, now, notIo>>

\* (mutant) the response is left in the buffer of stdout
StdioWrite_NoFlush ==
    /\ io_pc = "write"
    /\ io_buffer' = Append(io_buffer, JsonDumps(io_response))
    /\ io_pc' = "read"
    /\ UNCHANGED <<io_line, io_response, io_stdout, io_read, io_handled, rpcVars, now, notIo>>

\* sys.stdout.write(json.dumps(response) + "\n")
StdioWrite ==
    /\ io_pc = "write"
    /\ io_buffer' = Append(io_buffer, JsonDumps(io_response))
    /\ io_pc' = "flush"
    /\ UNCHANGED <<io_line, io_response, io_stdout, io_read, io_handled, rpcVars, now, notIo>>

\* sys.stdout.flush()
StdioFlush ==
    /\ io_pc = "flush"
    /\ io_stdout' = io_stdout \o io_buffer
    /\ io_buffer' = <<>>
    /\ io_pc' = "read"
    /\ UNCHANGED <<io_line, io_response, io_read, io_handled, rpcVars, now, notIo>>

IoInit ==
    /\ io_pc = "read"
    /\ io_line = <<>>
    /\ io_response = None
    /\ io_buffer = <<>>
    /\ io_stdout = <<>>
    /\ io_read = 0
    /\ io_handled = <<>>

IoNext == StdioRead \/ StdioHandle \/ StdioWrite \/ StdioFlush


-----------------------------------------------------------------------------
(* Properties of ProductionMCPServer *)

\* the request names one of the six methods and the handler of the method succeeds
HandlerSucceeds(request) ==
    LET method == Get(request, "method", None)
        params == Get(request, "params", Dict(<<>>))
    IN  \/ method \in {S("tools/list"), S("resources/list"), S("ping")}
        \/ method = S("initialize") /\ params # None
        \/ /\ method = S("tools/call")
           /\ params # None
           /\ Get(params[2], "name", None) = S("echo")
           /\ IsStr(Get(Get(params[2], "arguments", Dict(<<>>))[2], "message", S("Hello")))
        \/ /\ method = S("resources/read")
           /\ params # None
           /\ Get(params[2], "uri", None) = S("stats://server")

\* C5: handle_request returns one JSON-RPC 2.0 response per request: the id of the
\* request, exactly one of 'result' and 'error'; 'result' exactly when the method
\* is one of the six and its handler succeeds, otherwise 'error' with code -32603;
\* no exception escapes.
C5_JsonRpcResponse ==
    request_count > 0 =>
        /\ rpc_resp[1] = "dict"
        /\ DOMAIN rpc_resp[2] \in {{"jsonrpc", "id", "result"}, {"jsonrpc", "id", "error"}}
        /\ rpc_resp[2].jsonrpc = S("2.0")
        /\ rpc_resp[2].id = Get(rpc_req, "id", None)
        /\ ("result" \in DOMAIN rpc_resp[2]) <=> HandlerSucceeds(rpc_req)
        /\ "error" \in DOMAIN rpc_resp[2] =>
              /\ rpc_resp[2].error[2].code = Num(-32603)
              /\ IsStr(rpc_resp[2].error[2].message)

\* witness of C5: the echo handler raised and the response carries the error
C5_Witness ==
    /\ request_count > 0
    /\ Get(rpc_req, "method", None) = S("tools/call")
    /\ Get(rpc_req, "id", None) = Num(1)
    /\ rpc_resp = Dict([jsonrpc |-> S("2.0"), id |-> Num(1),
                        error |-> Dict([code |-> Num(-32603),
                                        message |-> Str(<<"object of type '", "int",
                                                          "' has no len()">>)])])

\* C6: run_stdio never has two requests in flight: a line is read only when every
\* answered request has its response flushed to stdout; stdout holds the
\* responses of the answered requests in the order the requests were read, one
\* each.
C6_OneRequestInFlight ==
    [][ /\ io_read' # io_read =>
              /\ io_buffer = <<>>
              /\ Len(io_stdout) = Len(io_handled)
        /\ Len(io_handled') - Len(io_stdout') \in {0, 1}
        /\ Len(io_handled') <= io_read'
        /\ Len(io_buffer') <= 1
        /\ \A k \in 1..Len(io_stdout') :
              io_stdout'[k] = JsonDumps(Response(io_handled'[k][2], rpc_tools,
                                                 rpc_resources, now))
        /\ io_pc' \in {"stopped", "crashed"} => Len(io_stdout') = Len(io_handled')
      ]_vars

\* witness of C6: two requests were answered, with a line that is no JSON between
C6_Witness ==
    /\ io_pc = "read"
    /\ io_read = 3
    /\ Len(io_stdout) = 2
    /\ io_handled[1] # io_handled[2]

-----------------------------------------------------------------------------
(* example_simple.py: call_tool.  The texts are sequences of characters; the      *)
(* literal prefixes of the f-strings are one atom each.                           *)

MaxNum == 12        \* the numbers added are in -MaxNum..MaxNum
MaxLen == 3         \* the texts reversed have at most MaxLen characters

Chars == {"a", "b"}

Texts == UNION {[1..n -> Chars] : n \in 0..MaxLen}

TextContent(text) == Dict([type |-> S("text"), text |-> Str(text)])

\* (mutant) the slice text[::1] instead of text[::-1]
ReverseText_Forward(text) == text

\* text[::-1]
ReverseText(text) == [i \in 1..Len(text) |-> text[Len(text) + 1 - i]]

\* call_tool(name, arguments) of example_simple.py
ExampleCallTool(name, arguments) ==
    IF name = S("add")
    THEN IF "a" \notin DOMAIN arguments THEN KeyError("a")
         ELSE IF "b" \notin DOMAIN arguments THEN KeyError("b")
         ELSE LET result == arguments["a"][2] + arguments["b"][2]
              IN  List(<<TextContent(<<"Result: ">> \o IntToStr(result))>>)
    ELSE IF name = S("reverse_text")
    THEN IF "text" \notin DOMAIN arguments THEN KeyError("text")
         ELSE LET result == ReverseText(arguments["text"][2])
              IN  List(<<TextContent(<<"Reversed: ">> \o result)>>)
    ELSE List(<<TextContent(<<"Unknown tool: ">> \o name[2])>>)

ExampleNames == {S("add"), S("reverse_text"), S("count_words")}

ExampleArgs ==
    {[a |-> Num(x), b |-> Num(y)] : x, y \in -MaxNum..MaxNum}
    \cup {[text |-> Str(t)] : t \in Texts}

Pending == <<"pending">>

\* the call of call_tool that the client set up is made
ExampleCall ==
    /\ ex_in # <<>>
    /\ ex_out = Pending
    /\ ex_out' = ExampleCallTool(ex_in.name, ex_in.arguments)
    /\ UNCHANGED <<ex_in, now, notEx>>

\* no call is set up
ExInit ==
    /\ ex_in = <<>>
    /\ ex_out = Pending

\* a call is set up, with any name and any arguments of the sets above
ExInputs ==
    /\ ex_in \in [name : ExampleNames, arguments : ExampleArgs]
    /\ ex_out = Pending

ExNext == ExampleCall

-----------------------------------------------------------------------------
(* Properties of the example server *)

DigitValue(c) == CHOOSE d \in 0..9 : Digit(d) = c

\* int(text) for a decimal numeral
RECURSIVE ParseNat(_)
ParseNat(text) ==
    IF text = <<>> THEN 0
    ELSE 10 * ParseNat(SubSeq(text, 1, Len(text) - 1)) + DigitValue(text[Len(text)])

ParseInt(text) == IF text[1] = "-" THEN 0 - ParseNat(Tail(text)) ELSE ParseNat(text)

\* C7: call_tool('add', {a, b}) returns one text content, 'Result: ' followed by
\* the decimal numeral of a + b; call_tool('reverse_text', {text}) returns one text
\* content, 'Reversed: ' followed by the characters of text in reverse order, and
\* reversing that again gives text; any other name returns the one text
\* 'Unknown tool: <name>' and does not raise.
C7_ExampleTools ==
    ex_out # Pending =>
        LET name == ex_in.name
            arguments == ex_in.arguments
            body == Tail(ex_out[2][1][2].text[2])
        IN  /\ (name = S("add") /\ DOMAIN arguments = {"a", "b"}) =>
                  /\ ex_out[1] = "list" /\ Len(ex_out[2]) = 1
                  /\ ex_out[2][1][2].type = S("text")
                  /\ Head(ex_out[2][1][2].text[2]) = "Result: "
                  /\ body # <<>>
                  /\ ParseInt(body) = arguments.a[2] + arguments.b[2]
                  /\ (body[1] = "0" => Len(body) = 1)
            /\ (name = S("reverse_text") /\ DOMAIN arguments = {"text"}) =>
                  /\ ex_out[1] = "list" /\ Len(ex_out[2]) = 1
                  /\ ex_out[2][1][2].type = S("text")
                  /\ Head(ex_out[2][1][2].text[2]) = "Reversed: "
                  /\ Len(body) = Len(arguments.text[2])
                  /\ \A i \in 1..Len(body) :
                        body[i] = arguments.text[2][Len(body) + 1 - i]
                  /\ ReverseText(body) = arguments.text[2]
            /\ name \notin {S("add"), S("reverse_text")} =>
                  ex_out = List(<<Dict([type |-> S("text"),
                                        text |-> Str(<<"Unknown tool: ">> \o name[2])])>>)

\* witness of C7: a text that is no palindrome was reversed
C7_Witness ==
    /\ ex_in.name = S("reverse_text")
    /\ ex_in.arguments = [text |-> Str(<<"a", "b", "b">>)]
    /\ ex_out = List(<<TextContent(<<"Reversed: ", "b", "b", "a">>)>>)

-----------------------------------------------------------------------------
(* memory_agent.py: short-term memory per session, long-term memory per    *)
(* user.  In this script an atom of a string is a word, and the white      *)
(* space between two words is implied: the code looks for phrases and      *)
(* splits at them.                                                         *)

MaxInvokes == 3

\* str.lower() on a word
Lower(w) ==
    CASE w = "My"     -> "my"
      [] w = "I"      -> "i"
      [] w = "Alice"  -> "alice"
      [] w = "Python" -> "python"
      [] w = "Acme"   -> "acme"
      [] w = "List"   -> "list"
      [] w = "EKS"    -> "eks"
      [] w = "Describe" -> "describe"
      [] w = "Create" -> "create"
      [] w = "Check"  -> "check"
      [] w = "Get"    -> "get"
      [] w = "Scale"  -> "scale"
      [] w = "Delete" -> "delete"
      [] OTHER        -> w

\* text.lower()
LowerText(text) == [n \in DOMAIN text |-> Lower(text[n])]

\* text.find(sep, from): the first position at or after from where sep starts,
\* 0 if there is none
Find(text, sep, from) ==
    LET at == {n \in from..(Len(text) - Len(sep) + 1) :
                   SubSeq(text, n, n + Len(sep) - 1) = sep}
    IN  IF at = {} THEN 0 ELSE CHOOSE n \in at : \A m \in at : n <= m

\* text.split(sep)[1] for a sep that occurs in text: what stands between the
\* first occurrence of sep and the next one (or the end)
SplitSecond(text, sep) ==
    LET first == Find(text, sep, 1)
        next  == Find(text, sep, first + Len(sep))
    IN  SubSeq(text, first + Len(sep),
               IF next = 0 THEN Len(text) ELSE next - 1)

\* the facts found by each of the three rules of extract_facts
NameFacts(text) ==
    IF IsSubstring(<<"my", "name", "is">>, text)
    THEN <<Str(<<"name:", SplitSecond(text, <<"my", "name", "is">>)[1]>>)>>
    ELSE <<>>

LikeFacts(text) ==
    IF IsSubstring(<<"i", "love">>, text) \/ IsSubstring(<<"i", "like">>, text)
    THEN <<Str(<<"likes:">> \o
               SplitSecond(text, IF IsSubstring(<<"love">>, text)
                                 THEN <<"love">> ELSE <<"like">>))>>
    ELSE <<>>

WorkFacts(text) ==
    IF IsSubstring(<<"i", "work", "at">>, text) \/ IsSubstring(<<"i'm", "a">>, text)
    THEN <<Str(<<"occupation:">> \o
               SplitSecond(text, IF IsSubstring(<<"work", "at">>, text)
                                 THEN <<"work", "at">> ELSE <<"i'm", "a">>))>>
    ELSE <<>>

\* extract_facts(text): the list of facts, or the exception it raises
extract_facts(text) ==
    IF text = None
    THEN Raise("AttributeError", <<"'NoneType' object has no attribute 'lower'">>)
    ELSE LET lower == LowerText(text[2])
         IN  IF /\ IsSubstring(<<"my", "name", "is">>, lower)
                /\ SplitSecond(lower, <<"my", "name", "is">>) = <<>>
             THEN Raise("IndexError", <<"list index out of range">>)
             ELSE List(NameFacts(lower) \o LikeFacts(lower) \o WorkFacts(lower))

\* MemoryManager.get_from_stm(session_id, "history") or []
get_from_stm(stm, session_id) ==
    IF session_id \in DOMAIN stm THEN stm[session_id].history ELSE <<>>

\* MemoryManager.save_to_stm(session_id, "history", history)
save_to_stm(stm, session_id, history) ==
    [s \in DOMAIN stm \cup {session_id} |->
        IF s = session_id THEN [history |-> history] ELSE stm[s]]

\* MemoryManager.get_from_ltm(user_id)
get_from_ltm(ltm, user_id) ==
    IF user_id \in DOMAIN ltm THEN ltm[user_id]
    ELSE [facts |-> <<>>, preferences |-> <<>>]

\* the fact_type invoke gives a fact
FactType(fact) ==
    IF IsSubstring(<<"likes:">>, fact[2]) \/ IsSubstring(<<"loves:">>, fact[2])
    THEN "preference" ELSE "fact"

\* (mutant) save_to_ltm without the elif branch of the preferences
save_to_ltm_FactsOnly(ltm, user_id, fact_type, value) ==
    LET old == get_from_ltm(ltm, user_id)
    IN  [u \in DOMAIN ltm \cup {user_id} |->
            IF u # user_id THEN ltm[u]
            ELSE IF fact_type = "fact"
                 THEN [old EXCEPT !.facts = Append(@, value)]
                 ELSE old]

\* MemoryManager.save_to_ltm(user_id, fact_type, value)
save_to_ltm(ltm, user_id, fact_type, value) ==
    LET old == get_from_ltm(ltm, user_id)
    IN  [u \in DOMAIN ltm \cup {user_id} |->
            IF u # user_id THEN ltm[u]
            ELSE IF fact_type = "fact"
                 THEN [old EXCEPT !.facts = Append(@, value)]
                 ELSE IF fact_type = "preference"
                 THEN [old EXCEPT !.preferences = Append(@, value)]
                 ELSE old]

\* the loop of invoke that saves the facts, one after the other
RECURSIVE SaveFacts(_, _, _)
SaveFacts(ltm, user_id, facts) ==
    IF facts = <<>> THEN ltm
    ELSE SaveFacts(save_to_ltm(ltm, user_id, FactType(facts[1]), facts[1]),
                   user_id, Tail(facts))

\* ', '.join(list) and ' '.join(list)
RECURSIVE Join(_, _)
Join(sep, list) ==
    IF list = <<>> THEN <<>>
    ELSE IF Len(list) = 1 THEN list[1][2]
    ELSE list[1][2] \o sep \o Join(sep, Tail(list))

\* history[-3:]
LastThree(history) ==
    SubSeq(history, IF Len(history) > 3 THEN Len(history) - 2 ELSE 1, Len(history))

\* the context invoke builds from the user's data and the session's history
Context(user_data, history) ==
    (IF user_data.facts # <<>>
     THEN <<"What I know about you:">> \o Join(<<",">>, user_data.facts) \o <<"\n">>
     ELSE <<>>)
    \o (IF user_data.preferences # <<>>
        THEN <<"Your preferences:">> \o Join(<<",">>, user_data.preferences) \o <<"\n">>
        ELSE <<>>)
    \o (IF history # <<>>
        THEN <<"Recent conversation:">> \o Join(<<>>, LastThree(history)) \o <<"\n">>
        ELSE <<>>)

\* what the agent does with a prompt: it answers, or the call fails
AgentOutcomes == {"message", "raise"}

AgentError == Raise("Exception", <<"agent call failed">>)

\* result.message
Message(full_prompt) == <<"message", full_prompt>>

MemSessions == {S("session_001")}
MemUsers == {S("alice")}
MemPrompts ==
    { Str(<<"My", "name", "is", "Alice", "and", "I", "love", "Python">>),
      Str(<<"I", "work", "at", "Acme">>),
      Str(<<"My", "name", "is">>) }

\* the payloads: session_id and user_id are optional
MemPayloads ==
    UNION { { [prompt |-> p],
              [prompt |-> p, session_id |-> s],
              [prompt |-> p, user_id |-> u],
              [prompt |-> p, session_id |-> s, user_id |-> u] } :
            <<p, s, u>> \in MemPrompts \X MemSessions \X MemUsers }

\* invoke(payload), the agent behaving as outcome says
MemInvoke(payload, outcome) ==
    LET user_message == Get(payload, "prompt", None)
        session_id   == Get(payload, "session_id", S("default"))
        user_id      == Get(payload, "user_id", S("user_001"))
        history      == get_from_stm(short_term_memory, session_id)
        user_data    == get_from_ltm(long_term_memory, user_id)
        context      == Context(user_data, history)
        full_prompt  == context \o <<"\n", "User:">> \o PyStrOf(user_message)
        facts        == extract_facts(user_message)
        saved        == ~IsRaise(facts)
        ltm          == SaveFacts(long_term_memory, user_id, facts[2])
        \* user_data is the stored dict when the user was known, and a dict of
        \* its own when not
        data_after   == IF user_id \in DOMAIN long_term_memory
                        THEN ltm[user_id] ELSE user_data
    IN  /\ Len(mem_log) < MaxInvokes
        /\ mem_log' = IF outcome = "raise" THEN mem_log
                       ELSE Append(mem_log,
                                [payload |-> payload, context |-> context,
                                 facts |-> IF saved THEN facts[2] ELSE <<>>,
                                 saved |-> saved])
        /\ IF outcome = "raise"
           THEN /\ mem_ret' = AgentError
                /\ UNCHANGED <<short_term_memory, long_term_memory>>
           ELSE IF saved
           THEN /\ long_term_memory' = ltm
                /\ short_term_memory' =
                       save_to_stm(short_term_memory, session_id,
                                   Append(history, user_message))
                /\ mem_ret' = Dict([
                       answer |-> Message(full_prompt),
                       session_id |-> session_id,
                       facts_learned |-> facts,
                       memory_context |-> Dict([
                           stm_items |-> Num(Len(history) + 1),
                           ltm_facts |-> Num(Len(data_after.facts)),
                           ltm_preferences |-> Num(Len(data_after.preferences))])])
           ELSE /\ mem_ret' = facts
                /\ UNCHANGED <<short_term_memory, long_term_memory>>
        /\ UNCHANGED <<now, notMem>>

MemInit ==
    /\ short_term_memory = <<>>
    /\ long_term_memory = <<>>
    /\ mem_ret = None
    /\ mem_log = <<>>

MemNext == \E payload \in MemPayloads, outcome \in AgentOutcomes : MemInvoke(payload, outcome)

(* Properties of the memory agent *)

\* the user and the session a payload names
UserOf(payload) == IF "user_id" \in DOMAIN payload THEN payload.user_id ELSE S("user_001")

SessionOf(payload) ==
    IF "session_id" \in DOMAIN payload THEN payload.session_id ELSE S("default")

\* the invokes made before invoke n that ran to their end
SavedBefore(n) == {m \in 1..(n - 1) : mem_log[m].saved}

\* the prompts of the invokes that ran to their end under a session, in arrival
\* order
RECURSIVE PromptsOf(_, _)
PromptsOf(log, session_id) ==
    IF log = <<>> THEN <<>>
    ELSE IF log[1].saved /\ SessionOf(log[1].payload) = session_id
         THEN <<log[1].payload.prompt>> \o PromptsOf(Tail(log), session_id)
         ELSE PromptsOf(Tail(log), session_id)

\* C8: a fact or preference extracted from a prompt is stored under the user_id
\* ('user_001' when the payload has none): every later invoke with that user_id,
\* whatever its session_id, has the fact in the context it builds, and no invoke
\* of another user has stored anything under that user; the history of a session
\* is the prompts sent under that session_id, in arrival order, and nothing else.
C8_MemoryScopes ==
    /\ \A n \in DOMAIN mem_log : \A m \in SavedBefore(n) :
           UserOf(mem_log[m].payload) = UserOf(mem_log[n].payload)
           => \A f \in DOMAIN mem_log[m].facts :
                  IsSubstring(mem_log[m].facts[f][2], mem_log[n].context)
    /\ \A u \in DOMAIN long_term_memory :
           \E m \in DOMAIN mem_log :
               mem_log[m].saved /\ UserOf(mem_log[m].payload) = u
    /\ \A s \in DOMAIN short_term_memory :
           short_term_memory[s].history = PromptsOf(mem_log, s)

\* witness of C8: a payload without user_id taught a name and a preference under
\* one session, and a payload without user_id under another session got both in
\* its context, while each of the two sessions has its own prompt only
C8_Witness ==
    /\ Len(mem_log) = 2
    /\ mem_log[1].saved /\ mem_log[2].saved
    /\ DOMAIN mem_log[1].payload = {"prompt", "session_id"}
    /\ DOMAIN mem_log[2].payload = {"prompt"}
    /\ mem_log[1].payload.session_id = S("session_001")
    /\ IsSubstring(<<"name:", "alice">>, mem_log[2].context)
    /\ IsSubstring(<<"likes:", "python">>, mem_log[2].context)
    /\ DOMAIN long_term_memory = {S("user_001")}
    /\ short_term_memory[S("session_001")].history = <<mem_log[1].payload.prompt>>
    /\ short_term_memory[S("default")].history = <<mem_log[2].payload.prompt>>

-----------------------------------------------------------------------------
(* policy_agent.py: a policy check in front of the agent *)

\* POLICIES
POLICIES ==
    [a \in {S("read_data"), S("write_data"), S("delete_data"), S("deploy_code")} |->
        CASE a = S("read_data") ->
                 [roles |-> <<S("user"), S("admin"), S("analyst")>>,
                  resources |-> <<S("customers"), S("orders")>>]
          [] a = S("write_data") ->
                 [roles |-> <<S("admin")>>,
                  resources |-> <<S("customers"), S("orders")>>]
          [] a = S("delete_data") ->
                 [roles |-> <<S("admin")>>,
                  resources |-> <<S("customers"), S("orders")>>]
          [] a = S("deploy_code") ->
                 [roles |-> <<S("admin"), S("developer")>>,
                  resources |-> <<S("production"), S("staging")>>]]

\* x in list
InList(x, list) == \E n \in DOMAIN list : list[n] = x

\* (mutant) check_policy without the check of the role
check_policy_NoRoleCheck(action, user_role, resource) ==
    IF action \notin DOMAIN POLICIES
    THEN [allowed |-> FALSE, reason |-> Str(<<"Unknown action">>)]
    ELSE IF ~InList(resource, POLICIES[action].resources)
    THEN [allowed |-> FALSE,
          reason |-> Str(<<"Resource '">> \o PyStrOf(resource) \o <<"' not in policy">>)]
    ELSE [allowed |-> TRUE, reason |-> Str(<<"Policy allows action">>)]

\* check_policy(action, user_role, resource)
check_policy(action, user_role, resource) ==
    IF action \notin DOMAIN POLICIES
    THEN [allowed |-> FALSE, reason |-> Str(<<"Unknown action">>)]
    ELSE IF ~InList(user_role, POLICIES[action].roles)
    THEN [allowed |-> FALSE,
          reason |-> Str(<<"Role '">> \o PyStrOf(user_role) \o <<"' not authorized">>)]
    ELSE IF ~InList(resource, POLICIES[action].resources)
    THEN [allowed |-> FALSE,
          reason |-> Str(<<"Resource '">> \o PyStrOf(resource) \o <<"' not in policy">>)]
    ELSE [allowed |-> TRUE, reason |-> Str(<<"Policy allows action">>)]

\* the prompts invoke(payload) hands to the agent
PolicyAgentCalls(payload) ==
    LET action    == Get(payload, "action", None)
        user_role == Get(payload, "user_role", None)
        resource  == Get(payload, "resource", None)
    IN  IF check_policy(action, user_role, resource).allowed
        THEN <<Str(<<"Execute ">> \o PyStrOf(action) \o <<" on ">> \o PyStrOf(resource))>>
        ELSE <<>>

\* invoke(payload), the agent behaving as outcome says
PolicyInvoke(payload, outcome) ==
    LET action       == Get(payload, "action", None)
        user_role    == Get(payload, "user_role", None)
        resource     == Get(payload, "resource", None)
        policy_check == check_policy(action, user_role, resource)
    IN  IF policy_check.allowed
        THEN IF outcome = "raise" THEN AgentError
             ELSE Dict([status |-> S("success"),
                        result |-> Message(PolicyAgentCalls(payload)[1][2]),
                        policy_check |-> Dict(policy_check)])
        ELSE Dict([status |-> S("denied"),
                   reason |-> policy_check.reason,
                   policy_check |-> Dict(policy_check)])

\* a field of the payload: a value, null, or absent
Absent == <<"absent">>

PolicyActions ==
    DOMAIN POLICIES \cup {S("drop_table"), S(""), None, Absent}

PolicyRoles ==
    {S("user"), S("admin"), S("analyst"), S("developer"), S("guest"), S("Admin"),
     None, Absent}

PolicyResources ==
    {S("customers"), S("orders"), S("production"), S("staging"), S("secrets"),
     None, Absent}

\* the payload with the fields that are not absent
PolicyPayload(action, user_role, resource) ==
    LET given == [action |-> action, user_role |-> user_role, resource |-> resource]
    IN  [k \in {f \in DOMAIN given : given[f] # Absent} |-> given[k]]

PolicyPayloads ==
    {PolicyPayload(a, r, x) :
        <<a, r, x>> \in PolicyActions \X PolicyRoles \X PolicyResources}

PolicyCall ==
    /\ pol_out = Pending
    /\ pol_out' = PolicyInvoke(pol_in.payload, pol_in.outcome)
    /\ pol_agent' = PolicyAgentCalls(pol_in.payload)
    /\ UNCHANGED <<pol_in, now, notPol>>

PolInit ==
    /\ pol_in = [payload |-> <<>>, outcome |-> "message"]
    /\ pol_out = Pending
    /\ pol_agent = <<>>

\* the calls the specification of the policy agent starts from
PolInputs ==
    /\ pol_in \in [payload : PolicyPayloads, outcome : AgentOutcomes]
    /\ pol_out = Pending
    /\ pol_agent = <<>>

PolNext == PolicyCall

(* Properties of the policy agent *)

\* the request names a defined policy, a role of that policy and a resource of it
PolicyAllows(payload) ==
    /\ "action" \in DOMAIN payload
    /\ \E a \in {"read_data", "write_data", "delete_data", "deploy_code"} :
           /\ payload.action = S(a)
           /\ "user_role" \in DOMAIN payload
           /\ "resource" \in DOMAIN payload
           /\ payload.user_role \in
                  CASE a = "read_data"   -> {S("user"), S("admin"), S("analyst")}
                    [] a = "write_data"  -> {S("admin")}
                    [] a = "delete_data" -> {S("admin")}
                    [] a = "deploy_code" -> {S("admin"), S("developer")}
           /\ payload.resource \in
                  IF a = "deploy_code" THEN {S("production"), S("staging")}
                  ELSE {S("customers"), S("orders")}

IsSuccess(out) == out[1] = "dict" /\ out[2].status = S("success")

\* C9: invoke returns 'success', having called the agent, only for a defined
\* action with a role and a resource of its policy; in every other case it returns
\* 'denied' with the reason of the policy check and the agent is not invoked; no
\* role but 'admin' gets 'success' for write_data or delete_data.
C9_PolicyEnforced ==
    pol_out # Pending =>
        /\ IsSuccess(pol_out) => PolicyAllows(pol_in.payload) /\ Len(pol_agent) = 1
        /\ PolicyAllows(pol_in.payload) /\ pol_in.outcome = "message" => IsSuccess(pol_out)
        /\ ~PolicyAllows(pol_in.payload) =>
               /\ pol_out[1] = "dict"
               /\ pol_out[2].status = S("denied")
               /\ pol_out[2].reason = pol_out[2].policy_check[2].reason
               /\ pol_out[2].reason[2][1] \in {"Unknown action", "Role '", "Resource '"}
               /\ pol_agent = <<>>
        /\ /\ "action" \in DOMAIN pol_in.payload
           /\ pol_in.payload.action \in {S("write_data"), S("delete_data")}
           /\ Get(pol_in.payload, "user_role", None) # S("admin")
           => ~IsSuccess(pol_out)

\* witness of C9: a developer asked to write customers and was denied, the agent
\* not called
C9_Witness ==
    /\ pol_in.payload = [action |-> S("write_data"), user_role |-> S("developer"),
                         resource |-> S("customers")]
    /\ pol_out # Pending
    /\ pol_out[2].status = S("denied")
    /\ pol_out[2].reason = Str(<<"Role '", "developer", "' not authorized">>)
    /\ pol_agent = <<>>

-----------------------------------------------------------------------------
(* api_gateway.py: an API key check and a rate limit in front of the agent *)

\* the requests sent under bob's key and under alice's key
MaxBobRequests == 51
MaxAliceRequests == 1

\* API_KEYS
API_KEYS ==
    [k \in {S("key_123"), S("key_456")} |->
        IF k = S("key_123") THEN [user |-> S("alice"), rate_limit |-> 100]
        ELSE [user |-> S("bob"), rate_limit |-> 50]]

\* the values datetime.now().strftime("%Y-%m-%d %H:%M") takes, in order
Minutes == <<"2026-01-01 12:00", "2026-01-01 12:01">>

\* validate_api_key(api_key)
validate_api_key(api_key) ==
    IF api_key \in DOMAIN API_KEYS
    THEN [valid |-> TRUE, user |-> API_KEYS[api_key].user]
    ELSE [valid |-> FALSE]

\* f"{api_key}:{now}"
CountKey(api_key, minute) == Str(api_key[2] \o <<":", minute>>)

\* (mutant) the comparison count > limit
RateLimitOk_OffByOne(counts, api_key, minute) ==
    Get(counts, CountKey(api_key, minute), 0) <= API_KEYS[api_key].rate_limit

\* check_rate_limit(api_key): whether it returns True
RateLimitOk(counts, api_key, minute) ==
    ~(Get(counts, CountKey(api_key, minute), 0) >= API_KEYS[api_key].rate_limit)

\* check_rate_limit(api_key): request_counts after it
check_rate_limit(counts, api_key, minute) ==
    LET key == CountKey(api_key, minute)
    IN  IF ~RateLimitOk(counts, api_key, minute) THEN counts
        ELSE [k \in DOMAIN counts \cup {key} |->
                 IF k = key THEN Get(counts, key, 0) + 1 ELSE counts[k]]

\* payload.get("headers", {}).get("X-API-Key")
ApiKeyOf(payload) == Get(Get(payload, "headers", <<>>), "X-API-Key", None)

GwPrompt == S("Hello")

\* the payloads: a valid key, an unknown key, headers without a key, no headers
GwPayloads ==
    {[prompt |-> GwPrompt, headers |-> ("X-API-Key" :> k)] :
        k \in {S("key_123"), S("key_456"), S("invalid")}}
    \cup {[prompt |-> GwPrompt, headers |-> <<>>], [prompt |-> GwPrompt]}

\* the requests that passed the rate check under a key, over all minutes
Passed(counts, api_key) ==
    LET n(m) == Get(counts, CountKey(api_key, Minutes[m]), 0)
    IN  n(1) + n(2)

\* the number of requests the clients holding a key send
Budget(api_key) == IF api_key = S("key_456") THEN MaxBobRequests ELSE MaxAliceRequests

\* what invoke(payload) returns (or raises) with request_counts as counts, the
\* agent behaving as outcome says
GwReturn(counts, minute, payload, outcome) ==
    LET api_key == ApiKeyOf(payload)
        auth    == validate_api_key(api_key)
    IN  IF ~auth.valid
        THEN Dict([error |-> S("Invalid API key"), status |-> Num(401)])
        ELSE IF ~RateLimitOk(counts, api_key, minute)
        THEN Dict([error |-> S("Rate limit exceeded"), status |-> Num(429)])
        ELSE IF outcome = "raise" THEN AgentError
        ELSE Dict([result |-> Message(Get(payload, "prompt", None)[2]),
                   user |-> auth.user,
                   status |-> Num(200)])

\* invoke(payload), the agent behaving as outcome says
GwInvoke(payload, outcome) ==
    LET api_key == ApiKeyOf(payload)
        auth    == validate_api_key(api_key)
        minute  == Minutes[gw_minute]
        counts  == check_rate_limit(request_counts, api_key, minute)
    IN  /\ gw_in' = payload
        /\ gw_out' = GwReturn(request_counts, minute, payload, outcome)
        /\ IF ~auth.valid
           THEN UNCHANGED <<request_counts, gw_agent>>
           ELSE IF ~RateLimitOk(request_counts, api_key, minute)
           THEN UNCHANGED <<request_counts, gw_agent>>
           ELSE /\ Passed(counts, api_key) <= Budget(api_key)
                /\ request_counts' = counts
                /\ gw_agent' = gw_agent + 1
        /\ UNCHANGED <<gw_minute, now, notGw>>

\* a minute of the clock passes
GwTick ==
    /\ gw_minute < Len(Minutes)
    /\ gw_minute' = gw_minute + 1
    /\ UNCHANGED <<request_counts, gw_in, gw_out, gw_agent, now, notGw>>

GwInit ==
    /\ request_counts = <<>>
    /\ gw_minute = 1
    /\ gw_in = <<>>
    /\ gw_out = None
    /\ gw_agent = 0

GwNext ==
    \/ \E payload \in GwPayloads, outcome \in AgentOutcomes : GwInvoke(payload, outcome)
    \/ GwTick

(* Properties of the API gateway *)

\* the rate limit of each valid key
RateLimitOf(k) == IF k = S("key_123") THEN 100 ELSE 50

ValidKeys == {S("key_123"), S("key_456")}

\* the count of a key in a minute
CountOf(counts, k, m) == Get(counts, CountKey(k, Minutes[m]), 0)

\* C10: for every valid key and every minute the requests that passed the rate
\* check are at most the key's rate_limit; with the limit reached, a further
\* request of the minute returns 429 and the agent is not invoked; a request with
\* an invalid or missing key returns 401 and changes no count; and a request
\* under one key changes no count of another key.
C10_RateLimit ==
    [][ /\ \A k \in ValidKeys : \A m \in DOMAIN Minutes :
               CountOf(request_counts', k, m) <= RateLimitOf(k)
        /\ gw_minute' = gw_minute /\ gw_in' # <<>> =>
            LET k == ApiKeyOf(gw_in')
            IN  /\ k \in ValidKeys /\ CountOf(request_counts, k, gw_minute) >= RateLimitOf(k)
                   => /\ gw_out' = Dict([error |-> S("Rate limit exceeded"),
                                         status |-> Num(429)])
                      /\ gw_agent' = gw_agent
                      /\ request_counts' = request_counts
                /\ k \notin ValidKeys
                   => /\ gw_out' = Dict([error |-> S("Invalid API key"),
                                         status |-> Num(401)])
                      /\ gw_agent' = gw_agent
                      /\ request_counts' = request_counts
                /\ \A other \in ValidKeys \ {k} : \A m \in DOMAIN Minutes :
                       CountOf(request_counts', other, m) = CountOf(request_counts, other, m)
                /\ k \in ValidKeys /\ CountOf(request_counts, k, gw_minute) < RateLimitOf(k)
                   => /\ CountOf(request_counts', k, gw_minute)
                             = CountOf(request_counts, k, gw_minute) + 1
                      /\ gw_agent' = gw_agent + 1
      ]_vars

\* witness of C10: bob's key is at its limit in the second minute and his request
\* got 429, while alice's key has its one request counted
C10_Witness ==
    /\ gw_minute = 2
    /\ CountOf(request_counts, S("key_456"), 2) = 50
    /\ CountOf(request_counts, S("key_456"), 1) = 1
    /\ CountOf(request_counts, S("key_123"), 2) = 1
    /\ ApiKeyOf(gw_in) = S("key_456")
    /\ gw_out = Dict([error |-> S("Rate limit exceeded"), status |-> Num(429)])

-----------------------------------------------------------------------------
(* TaskAutomationServer.get_execution_history *)

\* row[i] on a tuple the cursor returned (i counts from 0)
RowIndex(row, i) ==
    IF i + 1 <= Len(row) THEN row[i + 1]
    ELSE Raise("IndexError", <<"tuple index out of range">>)

\* if workflow_id: the truth value of the argument
Truthy(v) == v # None /\ v # Str(<<>>)

\* the rows the WHERE clause keeps, as positions of the table
Selected(table, workflow_id) ==
    IF Truthy(workflow_id)
    THEN {n \in DOMAIN table : table[n].workflow_id = workflow_id}
    ELSE DOMAIN table

\* ORDER BY started_at DESC: the orders the query may return the rows in
Orderings(table, rows) ==
    {order \in [1..Cardinality(rows) -> rows] :
        /\ \A a, b \in DOMAIN order : a # b => order[a] # order[b]
        /\ \A a, b \in DOMAIN order :
               a < b => table[order[a]].started_at[2] >= table[order[b]].started_at[2]}

\* LIMIT ?: a negative limit is no limit
Limit(order, limit) ==
    IF limit < 0 \/ limit >= Len(order) THEN order ELSE SubSeq(order, 1, limit)

\* the columns each of the two queries selects
Columns(row, workflow_id) ==
    IF Truthy(workflow_id)
    THEN <<row.id, row.status, row.started_at, row.completed_at>>
    ELSE <<row.id, row.workflow_id, row.status, row.started_at, row.completed_at>>

\* the dict built from a fetched row; the first exception of its items if one raises
HistoryEntry(row, workflow_id) ==
    LET items == [id |-> RowIndex(row, 0),
                  workflow_id |-> IF ~Truthy(workflow_id) THEN RowIndex(row, 1)
                                  ELSE workflow_id,
                  status |-> RowIndex(row, 2),
                  started_at |-> RowIndex(row, 3),
                  completed_at |-> RowIndex(row, 4)]
        raised == {k \in DOMAIN items : IsRaise(items[k])}
    IN  IF raised = {} THEN Dict(items) ELSE items[CHOOSE k \in raised : TRUE]

\* get_execution_history(args), the query returning the rows in the given order
get_execution_history(table, args, order) ==
    LET workflow_id == Get(args, "workflow_id", None)
        limit       == Get(args, "limit", Num(10))[2]
        fetched     == Limit(order, limit)
        entries     == [n \in DOMAIN fetched |->
                           HistoryEntry(Columns(table[fetched[n]], workflow_id),
                                        workflow_id)]
        raised      == {n \in DOMAIN entries : IsRaise(entries[n])}
    IN  IF raised # {} THEN entries[CHOOSE n \in raised : \A m \in raised : n <= m]
        ELSE Dict([executions |-> List(entries), count |-> Num(Len(entries))])

HistoryArgs ==
    LET daily == MD5(S("daily"))
    IN  { <<>>, [limit |-> Num(1)], [workflow_id |-> daily],
          [workflow_id |-> daily, limit |-> Num(1)], [workflow_id |-> S("0000")] }

GetExecutionHistory(args) ==
    /\ wf_pc = "idle"
    /\ hist_out = Pending
    /\ \E order \in Orderings(executions,
                              Selected(executions, Get(args, "workflow_id", None))) :
           hist_out' = get_execution_history(executions, args, order)
    /\ hist_in' = args
    /\ UNCHANGED <<now, notHist>>

HistInit ==
    /\ hist_in = <<>>
    /\ hist_out = Pending

\* the server works until get_execution_history is called, which changes no table
HistoryNext ==
    \/ hist_out = Pending /\ WfNext
    \/ \E args \in HistoryArgs : GetExecutionHistory(args)

(* Properties of get_execution_history *)

\* the recorded fields of an execution
Recorded(row) ==
    Dict([id |-> row.id, workflow_id |-> row.workflow_id, status |-> row.status,
          started_at |-> row.started_at, completed_at |-> row.completed_at])

\* C11: get_execution_history returns, newest first and at most limit (default 10)
\* entries, the recorded id, workflow_id, status, started_at and completed_at of
\* each execution; with a workflow_id it returns the executions of that workflow,
\* with the same fields; count is the number of entries returned.
C11_ExecutionHistory ==
    hist_out # Pending =>
        LET wanted == IF "workflow_id" \in DOMAIN hist_in
                      THEN {n \in DOMAIN executions :
                               executions[n].workflow_id = hist_in.workflow_id}
                      ELSE DOMAIN executions
            limit  == IF "limit" \in DOMAIN hist_in THEN hist_in.limit[2] ELSE 10
            size   == IF Cardinality(wanted) < limit THEN Cardinality(wanted) ELSE limit
        IN  /\ hist_out[1] = "dict"
            /\ hist_out[2].count = Num(Len(hist_out[2].executions[2]))
            /\ Len(hist_out[2].executions[2]) = size
            /\ \A k \in 1..Len(hist_out[2].executions[2]) :
                   LET entry == hist_out[2].executions[2][k]
                   IN  /\ \E n \in wanted : entry = Recorded(executions[n])
                       /\ \A n \in wanted :
                              executions[n].started_at[2] > entry[2].started_at[2]
                              => \E j \in 1..(k - 1) :
                                     hist_out[2].executions[2][j] = Recorded(executions[n])

-----------------------------------------------------------------------------
(* bedrock_lambda_function.py: the handler of a Bedrock action group *)

\* get_weather(location)
get_weather(location) ==
    Dict([location |-> location, temperature |-> Num(72), condition |-> S("Sunny"),
          humidity |-> Num(45), wind_speed |-> Num(10)])

\* {param['name']: param['value'] for param in parameters}: a later parameter
\* replaces an earlier one of the same name
RECURSIVE ParamsDict(_)
ParamsDict(parameters) ==
    IF parameters = <<>> THEN <<>>
    ELSE LET init == ParamsDict(SubSeq(parameters, 1, Len(parameters) - 1))
             last == parameters[Len(parameters)]
         IN  [n \in DOMAIN init \cup {last.name} |->
                 IF n = last.name THEN last.value ELSE init[n]]

\* (mutant) a request without a location asks for the weather of None
LambdaResult_NoDefault(api_path, params_dict) ==
    IF api_path = S("/get_weather")
    THEN get_weather(Get(params_dict, S("location"), None))
    ELSE Dict([error |-> Str(<<"Unknown API path: ">> \o PyStrOf(api_path))])

\* the result lambda_handler routes to
LambdaResult(api_path, params_dict) ==
    IF api_path = S("/get_weather")
    THEN get_weather(Get(params_dict, S("location"), S("Unknown")))
    ELSE Dict([error |-> Str(<<"Unknown API path: ">> \o PyStrOf(api_path))])

\* lambda_handler(event, context)
lambda_handler(event) ==
    LET action_group == Get(event, "actionGroup", Str(<<>>))
        api_path     == Get(event, "apiPath", Str(<<>>))
        parameters   == Get(event, "parameters", List(<<>>))
        params_dict  == ParamsDict(parameters[2])
        result       == LambdaResult(api_path, params_dict)
    IN  Dict([messageVersion |-> S("1.0"),
              response |-> Dict([
                  actionGroup |-> action_group,
                  apiPath |-> api_path,
                  httpMethod |-> Get(event, "httpMethod", S("GET")),
                  httpStatusCode |-> Num(200),
                  responseBody |-> Dict(
                      "application/json" :> Dict([body |-> JsonDumps(result)]))])])

\* a parameter as Bedrock sends it
Param(name, value) == [name |-> S(name), type |-> S("string"), value |-> S(value)]

LambdaParameters ==
    { Absent, List(<<>>),
      List(<<Param("location", "Seattle")>>),
      List(<<Param("unit", "celsius")>>),
      List(<<Param("unit", "celsius"), Param("location", "Seattle")>>),
      List(<<Param("location", "Seattle"), Param("location", "Paris")>>) }

\* the event with the fields that are not absent
LambdaEvent(action_group, api_path, http_method, parameters) ==
    LET given == [actionGroup |-> action_group, apiPath |-> api_path,
                  httpMethod |-> http_method, parameters |-> parameters]
    IN  [k \in {f \in DOMAIN given : given[f] # Absent} |-> given[k]]

LambdaEvents ==
    {LambdaEvent(g, p, m, ps) :
        <<g, p, m, ps>> \in {Absent, S("weather-actions")}
                            \X {Absent, S("/get_weather"), S("/get_time"), Str(<<>>)}
                            \X {Absent, S("GET"), S("POST")}
                            \X LambdaParameters}

LambdaCall ==
    /\ lam_out = Pending
    /\ lam_out' = lambda_handler(lam_in)
    /\ UNCHANGED <<lam_in, now, notLam>>

LamInit ==
    /\ lam_in = <<>>
    /\ lam_out = Pending

\* the handler is called once, with any event
LamInputs ==
    /\ lam_in \in LambdaEvents
    /\ lam_out = Pending

LamNext == LambdaCall

(* Properties of lambda_handler *)

\* the values of the parameters of the event that are named name
ValuesNamed(event, name) ==
    IF "parameters" \in DOMAIN event
    THEN {event.parameters[2][n].value :
             n \in {m \in DOMAIN event.parameters[2] :
                       event.parameters[2][m].name = S(name)}}
    ELSE {}

\* C12: lambda_handler returns a response with messageVersion '1.0' that echoes
\* the event's actionGroup, apiPath and httpMethod (default 'GET') and has
\* httpStatusCode 200; for apiPath '/get_weather' the JSON body is the weather
\* record for the parameter named 'location' (default 'Unknown'), for every other
\* apiPath it is {"error": "Unknown API path: <apiPath>"}.
C12_LambdaResponse ==
    lam_out # Pending =>
        LET response == lam_out[2].response[2]
            body     == JsonLoads(response.responseBody[2]["application/json"][2].body)
            api_path == IF "apiPath" \in DOMAIN lam_in THEN lam_in.apiPath[2] ELSE <<>>
        IN  /\ lam_out[1] = "dict"
            /\ lam_out[2].messageVersion = S("1.0")
            /\ response.actionGroup =
                   (IF "actionGroup" \in DOMAIN lam_in THEN lam_in.actionGroup ELSE Str(<<>>))
            /\ response.apiPath = Str(api_path)
            /\ response.httpMethod =
                   (IF "httpMethod" \in DOMAIN lam_in THEN lam_in.httpMethod ELSE S("GET"))
            /\ response.httpStatusCode = Num(200)
            /\ IF api_path = <<"/get_weather">>
               THEN /\ DOMAIN body[2] = {"location", "temperature", "condition",
                                         "humidity", "wind_speed"}
                    /\ body[2].temperature = Num(72)
                    /\ body[2].condition = S("Sunny")
                    /\ IF ValuesNamed(lam_in, "location") = {}
                       THEN body[2].location = S("Unknown")
                       ELSE body[2].location \in ValuesNamed(lam_in, "location")
               ELSE body = Dict([error |-> Str(<<"Unknown API path: ">> \o api_path)])

\* witness of C12: a weather request without a location parameter and without an
\* httpMethod was answered for 'Unknown', with method 'GET'
C12_Witness ==
    /\ lam_out # Pending
    /\ lam_in = [apiPath |-> S("/get_weather"),
                 parameters |-> List(<<Param("unit", "celsius")>>)]
    /\ lam_out[2].response[2].httpMethod = S("GET")
    /\ JsonLoads(lam_out[2].response[2].responseBody[2]["application/json"][2].body)[2].location
           = S("Unknown")

-----------------------------------------------------------------------------
(* The AgentCore entrypoints: what invoke(payload) returns *)

\* (mutant) the message is returned under the key 'response'
MyAgentInvoke_Response(payload, outcome) ==
    IF outcome = "raise" THEN AgentError
    ELSE Dict([response |->
                   Message(Get(payload, "prompt", S("Hello! How can I help you today?"))[2])])

\* my_agent.py: invoke(payload), the agent behaving as outcome says
MyAgentInvoke(payload, outcome) ==
    IF outcome = "raise" THEN AgentError
    ELSE Dict([result |->
                   Message(Get(payload, "prompt", S("Hello! How can I help you today?"))[2])])

\* request_counts with bob's key at its limit in the first minute
CountsAtLimit == CountKey(S("key_456"), Minutes[1]) :> 50

\* the calls: a script, a payload, what the agent will do and, for the gateway,
\* the request_counts it is called with
EntrypointCalls ==
    [script : {"my_agent"}, payload : {<<>>, [prompt |-> S("Hello")]},
     outcome : AgentOutcomes]
    \cup [script : {"policy_agent"}, payload : PolicyPayloads, outcome : AgentOutcomes]
    \cup [script : {"api_gateway"}, payload : GwPayloads, outcome : AgentOutcomes,
          counts : {<<>>, CountsAtLimit}]

\* the entrypoint of the script, applied to the payload
Entrypoint(call) ==
    CASE call.script = "my_agent" -> MyAgentInvoke(call.payload, call.outcome)
      [] call.script = "policy_agent" -> PolicyInvoke(call.payload, call.outcome)
      [] call.script = "api_gateway" ->
             GwReturn(call.counts, Minutes[1], call.payload, call.outcome)

EntrypointCall ==
    /\ ep_out = Pending
    /\ ep_out' = Entrypoint(ep_in)
    /\ UNCHANGED <<ep_in, now, notEp>>

EpInit ==
    /\ ep_in = <<>>
    /\ ep_out = Pending

\* an entrypoint is called once, with any payload
EpInputs ==
    /\ ep_in \in EntrypointCalls
    /\ ep_out = Pending

EpNext == EntrypointCall

(* Properties of the entrypoints *)

\* the value is a string: a str, or the message of the agent
IsText(v) == v[1] \in {"str", "message"}

\* the response holds a string under the key
HasText(response, key) == key \in DOMAIN response /\ IsText(response[key])

-----------------------------------------------------------------------------
(* kiro_powers_demo.py: KiroPowersAgent loads the tools of a power on demand *)

\* the activate_power calls that load tools
MaxActivations == 3

\* AVAILABLE_POWERS
AVAILABLE_POWERS ==
    [p \in {"stripe", "figma", "datadog", "aws"} |->
        CASE p = "stripe" ->
                 [name |-> "Stripe Payment Processing",
                  description |-> "Expert knowledge of Stripe API, webhooks, and payment flows",
                  capabilities |-> <<"create_payment", "refund", "manage_subscriptions",
                                     "handle_webhooks">>]
          [] p = "figma" ->
                 [name |-> "Figma Design Integration",
                  description |-> "Expert knowledge of Figma API and design workflows",
                  capabilities |-> <<"export_designs", "create_components", "manage_styles",
                                     "collaborate">>]
          [] p = "datadog" ->
                 [name |-> "Datadog Monitoring",
                  description |-> "Expert knowledge of Datadog metrics, logs, and APM",
                  capabilities |-> <<"query_metrics", "create_dashboards", "set_alerts",
                                     "analyze_traces">>]
          [] p = "aws" ->
                 [name |-> "AWS Cloud Services",
                  description |-> "Expert knowledge of AWS services and infrastructure",
                  capabilities |-> <<"deploy_lambda", "manage_s3", "configure_vpc",
                                     "setup_rds">>]]

\* the add_tool calls of __init__
BaseTools ==
    <<"list_available_powers", "activate_power", "deactivate_power", "show_active_powers">>

\* _load_power_tools(power_name): the add_tool calls it makes
_load_power_tools(power_name) ==
    CASE power_name = "stripe"  -> <<"_stripe_create_payment", "_stripe_refund">>
      [] power_name = "figma"   -> <<"_figma_export_design", "_figma_create_component">>
      [] power_name = "datadog" -> <<"_datadog_query_metrics", "_datadog_create_alert">>
      [] power_name = "aws"     -> <<"_aws_deploy_lambda", "_aws_manage_s3">>
      [] OTHER                  -> <<>>

\* list.remove(x): the first occurrence is removed
RECURSIVE ListRemove(_, _)
ListRemove(list, x) ==
    IF list = <<>> THEN <<>>
    ELSE IF list[1] = x THEN Tail(list)
    ELSE <<list[1]>> \o ListRemove(Tail(list), x)

\* the lines '  * cap' of the activation message
RECURSIVE CapabilityLines(_)
CapabilityLines(caps) ==
    IF caps = <<>> THEN <<>>
    ELSE <<"  * ", caps[1]>> \o (IF Len(caps) > 1 THEN <<"\n">> ELSE <<>>)
         \o CapabilityLines(Tail(caps))

\* activate_power(power_name)
activate_power(power_name) ==
    /\ IF power_name \notin DOMAIN AVAILABLE_POWERS
       THEN /\ kiro_ret' = Str(<<"Power '", power_name, "' not found. Available: ",
                                 "['stripe', 'figma', 'datadog', 'aws']">>)
            /\ UNCHANGED <<active_powers, agent_tools>>
       ELSE IF InList(power_name, active_powers)
       THEN /\ kiro_ret' = Str(<<"Power '", power_name, "' is already active">>)
            /\ UNCHANGED <<active_powers, agent_tools>>
       ELSE /\ Len(agent_tools) < Len(BaseTools) + 2 * MaxActivations
            /\ agent_tools' = agent_tools \o _load_power_tools(power_name)
            /\ active_powers' = Append(active_powers, power_name)
            /\ kiro_ret' = Str(<<"Activated: ", AVAILABLE_POWERS[power_name].name, "\n",
                                 AVAILABLE_POWERS[power_name].description, "\n",
                                 "New capabilities available:", "\n">>
                               \o CapabilityLines(AVAILABLE_POWERS[power_name].capabilities)
                               \o <<"\n", "You now have specialized expertise in ",
                                    power_name, "!">>)
    /\ UNCHANGED <<now, notKiro>>

\* deactivate_power(power_name)
deactivate_power(power_name) ==
    /\ IF ~InList(power_name, active_powers)
       THEN /\ kiro_ret' = Str(<<"Power '", power_name, "' is not active">>)
            /\ UNCHANGED <<active_powers, agent_tools>>
       ELSE /\ active_powers' = ListRemove(active_powers, power_name)
            /\ kiro_ret' = Str(<<"Deactivated: ", power_name>>)
            /\ UNCHANGED agent_tools
    /\ UNCHANGED <<now, notKiro>>

PowerNames == DOMAIN AVAILABLE_POWERS \cup {"github"}

\* KiroPowersAgent.__init__
KiroInit ==
    /\ active_powers = <<>>
    /\ agent_tools = BaseTools
    /\ kiro_ret = None

KiroNext ==
    \/ \E power_name \in PowerNames : activate_power(power_name)
    \/ \E power_name \in PowerNames : deactivate_power(power_name)

(* Properties of KiroPowersAgent *)

\* the specialized tools of a power
ToolsOfPower(p) ==
    CASE p = "stripe"  -> {"_stripe_create_payment", "_stripe_refund"}
      [] p = "figma"   -> {"_figma_export_design", "_figma_create_component"}
      [] p = "datadog" -> {"_datadog_query_metrics", "_datadog_create_alert"}
      [] p = "aws"     -> {"_aws_deploy_lambda", "_aws_manage_s3"}

\* C14: the tools registered with the agent are the four base tools and the
\* specialized tools of the powers in active_powers, nothing else, and no tool is
\* registered twice.
C14_ToolsOfActivePowers ==
    /\ {agent_tools[n] : n \in DOMAIN agent_tools}
           = {"list_available_powers", "activate_power", "deactivate_power",
              "show_active_powers"}
             \cup UNION {ToolsOfPower(active_powers[n]) : n \in DOMAIN active_powers}
    /\ \A a, b \in DOMAIN agent_tools : a # b => agent_tools[a] # agent_tools[b]

-----------------------------------------------------------------------------
(* strands_eks_agent.py: execute_task routes a task to a handler by the key  *)
(* words in it.  A task is a sequence of words; a key word of the code has   *)
(* no blank in it, so it occurs in a task when it occurs in one of its words *)

\* keyword in word, for the lower-case words of the tasks below
InWord(keyword, word) ==
    \/ keyword = word
    \/ keyword = "cluster" /\ word = "clusters"
    \/ keyword = "pod" /\ word = "pods"
    \/ keyword = "deployment" /\ word = "deployments"

\* keyword in task_lower
InTask(keyword, task_lower) ==
    \E n \in DOMAIN task_lower : InWord(keyword, task_lower[n])

\* the call of a handler: execute_task returns what the handler returns
Routed(handler, argument) == <<"call", handler, argument>>

\* execute_task(task, context)
execute_task(task, ctx) ==
    LET task_lower == LowerText(task)
        context    == IF ctx = None \/ ctx = Dict(<<>>) THEN <<>> ELSE ctx[2]
    IN  IF InTask("list", task_lower) /\ InTask("cluster", task_lower)
        THEN Routed("list_clusters", <<>>)
        ELSE IF InTask("describe", task_lower) /\ InTask("cluster", task_lower)
        THEN Routed("describe_cluster", Get(context, "cluster_name", None))
        ELSE IF InTask("create", task_lower) /\ InTask("cluster", task_lower)
        THEN Routed("create_cluster_plan", Dict(context))
        ELSE IF /\ InTask("list", task_lower)
                /\ (InTask("pod", task_lower) \/ InTask("deployment", task_lower))
        THEN Routed("list_workloads", Get(context, "cluster_name", None))
        ELSE IF InTask("health", task_lower) \/ InTask("status", task_lower)
        THEN Routed("check_cluster_health", Get(context, "cluster_name", None))
        ELSE Dict([status |-> S("error"),
                   message |-> Str(<<"Task not recognized: ">> \o task),
                   suggestions |-> List(<<
                       Str(<<"List", "all", "EKS", "clusters">>),
                       Str(<<"Describe", "cluster", "<name>">>),
                       Str(<<"Check", "cluster", "health">>),
                       Str(<<"List", "pods", "in", "cluster">>)>>)])

\* get_available_tasks()
get_available_tasks ==
    << <<"List", "all", "EKS", "clusters">>,
       <<"Describe", "cluster", "details">>,
       <<"Create", "cluster", "plan">>,
       <<"Check", "cluster", "health">>,
       <<"List", "workloads", "in", "cluster">>,
       <<"Get", "cluster", "status">> >>

\* the tasks execute_task is called with: the available tasks, the suggestions
\* of the error and tasks of a user
EksTasks ==
    {get_available_tasks[n] : n \in DOMAIN get_available_tasks}
    \cup { <<"Describe", "cluster", "<name>">>, <<"List", "pods", "in", "cluster">>,
           <<"List", "deployments">>, <<"Scale", "the", "nodes">>,
           <<"list", "pods">>, <<"Delete", "cluster">> }

EksContexts ==
    { None, Dict(<<>>), Dict([cluster_name |-> S("prod")]),
      Dict([cluster_name |-> S("dev")]),
      Dict([cluster_name |-> S("prod"), version |-> S("1.28")]) }

ExecuteTask ==
    /\ eks_out = Pending
    /\ eks_out' = execute_task(eks_in.task, eks_in.context)
    /\ UNCHANGED <<eks_in, now, notEks>>

EksInit ==
    /\ eks_in = <<>>
    /\ eks_out = Pending

\* execute_task is called once, with any task and context
EksInputs ==
    /\ eks_in \in [task : EksTasks, context : EksContexts]
    /\ eks_out = Pending

EksNext == ExecuteTask

(* Properties of execute_task *)

\* the handler each advertised task names
NamedHandler(task) ==
    CASE task = <<"List", "all", "EKS", "clusters">>      -> "list_clusters"
      [] task = <<"Describe", "cluster", "details">>      -> "describe_cluster"
      [] task = <<"Describe", "cluster", "<name>">>       -> "describe_cluster"
      [] task = <<"Create", "cluster", "plan">>           -> "create_cluster_plan"
      [] task = <<"Check", "cluster", "health">>          -> "check_cluster_health"
      [] task = <<"Get", "cluster", "status">>            -> "check_cluster_health"
      [] task = <<"List", "workloads", "in", "cluster">>  -> "list_workloads"
      [] task = <<"List", "pods", "in", "cluster">>       -> "list_workloads"
      [] OTHER -> "none"

\* C15: a task of get_available_tasks, or a suggestion of the 'Task not
\* recognized' error, is routed by execute_task to the handler it names and never
\* yields 'Task not recognized'.
C15_AdvertisedTasksRouted ==
    eks_out # Pending /\ NamedHandler(eks_in.task) # "none"
    => /\ eks_out[1] = "call"
       /\ eks_out[2] = NamedHandler(eks_in.task)

-----------------------------------------------------------------------------
(* multi_agent.py: the researcher -> writer -> reviewer graph.  What the     *)
(* model answers (response.content) is any text of a small set               *)

\* word.upper(), for the words of the answers below
Upper(w) ==
    CASE w = "Approved." -> "APPROVED."
      [] w = "needs"     -> "NEEDS"
      [] w = "work"      -> "WORK"
      [] OTHER -> w

\* feedback.upper()
UpperText(text) == [n \in DOMAIN text |-> Upper(text[n])]

\* "APPROVED" in text: the word has no blank, so it is in one of the words
HasApproved(text) == \E n \in DOMAIN text : text[n] \in {"APPROVED", "APPROVED."}

\* the value LangGraph keeps for `research: Annotated[list, operator.add]`:
\* what the node returned is added to what the state held
Reduce(state, returned) ==
    [returned EXCEPT !.research = state.research \o returned.research]

\* researcher_agent(state)
researcher_agent(state, content) ==
    [state EXCEPT !.research = <<content>>, !.iterations = state.iterations + 1]

\* writer_agent(state)
writer_agent(state, content) == [state EXCEPT !.draft = content]

\* reviewer_agent(state)
reviewer_agent(state, content) ==
    IF HasApproved(UpperText(content[2]))
    THEN [state EXCEPT !.feedback = content, !.final_output = state.draft]
    ELSE [state EXCEPT !.feedback = content]

\* the limit of should_continue
MaxIterations == 2

\* should_continue(state)
should_continue(state) ==
    IF Truthy(state.final_output) THEN "end"
    ELSE IF state.iterations >= MaxIterations THEN "end"
    ELSE "continue"

MaQuery == Str(<<"What", "is", "AWS", "Bedrock", "AgentCore?">>)

\* initial_state of run_multi_agent
initial_state ==
    [query |-> MaQuery, research |-> <<>>, draft |-> Str(<<>>),
     feedback |-> Str(<<>>), final_output |-> Str(<<>>), iterations |-> 0]

ResearchAnswers == {Str(<<"facts">>), Str(<<"more", "facts">>)}
WriterAnswers   == {Str(<<>>), Str(<<"summary">>), Str(<<"better", "summary">>)}
ReviewerAnswers == {Str(<<"APPROVED">>), Str(<<"Approved.">>),
                    Str(<<"needs", "work">>), Str(<<>>)}

\* the researcher node and its edge to the writer
Researcher(content) ==
    /\ ma_pc = "researcher"
    /\ ma_state' = Reduce(ma_state, researcher_agent(ma_state, content))
    /\ ma_pc' = "writer"
    /\ UNCHANGED <<ma_ret, ma_log, now, notMa>>

\* the writer node and its edge to the reviewer
Writer(content) ==
    /\ ma_pc = "writer"
    /\ ma_state' = Reduce(ma_state, writer_agent(ma_state, content))
    /\ ma_pc' = "reviewer"
    /\ UNCHANGED <<ma_ret, ma_log, now, notMa>>

\* the reviewer node and its conditional edge
Reviewer(content) ==
    /\ ma_pc = "reviewer"
    /\ ma_state' = Reduce(ma_state, reviewer_agent(ma_state, content))
    /\ ma_log' = Append(ma_log, [feedback |-> content, draft |-> ma_state.draft])
    /\ ma_pc' = IF should_continue(ma_state') = "continue" THEN "researcher" ELSE "END"
    /\ UNCHANGED <<ma_ret, now, notMa>>

\* run_multi_agent returns when app.invoke has
Return ==
    /\ ma_pc = "END"
    /\ ma_ret' = IF Truthy(ma_state.final_output)
                 THEN ma_state.final_output ELSE ma_state.draft
    /\ ma_pc' = "returned"
    /\ UNCHANGED <<ma_state, ma_log, now, notMa>>

MaInit ==
    /\ ma_pc = "researcher"
    /\ ma_state = initial_state
    /\ ma_ret = Pending
    /\ ma_log = <<>>

MaNext ==
    \/ \E content \in ResearchAnswers : Researcher(content)
    \/ \E content \in WriterAnswers : Writer(content)
    \/ \E content \in ReviewerAnswers : Reviewer(content)
    \/ Return

(* Properties of run_multi_agent *)

\* the reviews whose feedback contains 'APPROVED'
Approvals == {n \in DOMAIN ma_log : HasApproved(ma_log[n].feedback[2])}

\* the cycle is executed at most twice
AtMostTwice == ma_state.iterations <= 2 /\ Len(ma_log) <= 2

\* no node runs after a review whose feedback contains 'APPROVED'
StopsWhenApproved ==
    \A n \in Approvals : n = Len(ma_log) /\ ma_pc \in {"END", "returned"}

\* what is returned is the approved draft, or the most recent draft
ReturnsDraft ==
    ma_pc = "returned"
    => ma_ret = IF Approvals # {}
                THEN ma_log[CHOOSE n \in Approvals : TRUE].draft
                ELSE ma_state.draft

\* C16: the researcher -> writer -> reviewer cycle of run_multi_agent is
\* executed at most twice, no node runs after the first review whose feedback
\* contains 'APPROVED', and the value returned is the approved draft, or the most
\* recent draft when no review approved.
C16_ReviewLoop == AtMostTwice /\ StopsWhenApproved /\ ReturnsDraft

-----------------------------------------------------------------------------
(* TaskAutomationServer: workflows that use conditions, placeholders, an     *)
(* unknown action and the variable store                                     *)

\* k1 = the result of the step that bound r
StepSetFromR == Dict([action |-> S("set_variable"),
                      params |-> Dict([key |-> S("k1"),
                                       value |-> Str(<<"{", "{", "r", "}", "}">>)]),
                      output_var |-> S("r2")])
\* the variable of the condition is never in the context: the workflow stops
StepLogIf == Dict([action |-> S("log"), params |-> Dict([message |-> S("checkpoint")]),
                   condition |-> Dict([variable |-> S("approved"),
                                       operator |-> S("equals"), value |-> Bool(TRUE)])])
\* stops the workflow unless the variable k2 holds 'admin'
StepGetUserIf == Dict([action |-> S("get_variable"),
                       params |-> Dict([key |-> S("k2")]),
                       output_var |-> S("x"),
                       condition |-> Dict([variable |-> S("x"), operator |-> S("equals"),
                                           value |-> S("admin")])])
\* k2 is a key of the variable store, never a name of the context
StepLogStore == Dict([action |-> S("log"),
                      params |-> Dict([message |-> Str(<<"{", "{", "k2", "}", "}">>)])])
\* the placeholder is a part of the value only
StepSetNote == Dict([action |-> S("set_variable"),
                     params |-> Dict([key |-> S("k3"),
                                      value |-> Str(<<"id=", "{", "{", "user", "}", "}">>)]),
                     output_var |-> S("n")])

\* the step lists create_workflow is called with
StorePrograms ==
    { List(<<StepSet, StepSetUser, StepSetFromR, StepLogIf, StepLog>>),
      List(<<StepGetUserIf, StepUnknown, StepLogStore, StepSetNote, StepGetIf>>) }

StoreNext ==
    \/ \E name \in WorkflowNames, steps \in StorePrograms :
          create_workflow([name |-> name, trigger_type |-> S("manual"), steps |-> steps])
    \/ \E name \in WorkflowNames, context \in Contexts :
          ExecuteBegin([workflow_id |-> MD5(name), context |-> context])
    \/ ExecuteStep
    \/ ExecuteFinish
    \/ Tick

-----------------------------------------------------------------------------
(* Properties of the steps of a workflow *)

\* the loop of execute_workflow runs the step at the current position
Stepping == wf_pc = "steps" /\ wf_cur.i <= Len(wf_cur.steps) /\ wf_cur' # wf_cur

\* the step the loop is at
CurStep == wf_cur.steps[wf_cur.i]

\* the step has a condition
HasCondition(step) ==
    "condition" \in DOMAIN step[2] /\ step[2]["condition"] \notin {None, Dict(<<>>)}

\* the context once the result of the step is bound to its output_var
Bound(step, context, step_result) ==
    IF "output_var" \in DOMAIN step[2]
    THEN (step[2]["output_var"] :> step_result) @@ context
    ELSE context

\* an 'equals' condition is false in the context: its variable is absent from it
\* or holds another value
EqualsFalse(condition, context) ==
    \/ condition[2].variable \notin DOMAIN context
    \/ context[condition[2].variable] # condition[2].value

\* the break of the loop was taken at the step at position wf_cur.i
Stopped == wf_pc = "finish" /\ wf_cur.i <= Len(wf_cur.steps)

\* C17: the condition of a step is evaluated after the action of the step has run
\* and its output_var is bound in the context; when the condition is false, which
\* includes that its variable is absent from the context, the step is counted in
\* the results, no later step runs and the execution is returned and recorded as
\* 'completed'.  A step without a condition never takes the break: unless its
\* action raises, the loop goes on to the next step.
C17_ConditionAfterAction ==
    [][ /\ (Stepping /\ wf_pc' # "idle") =>
              LET step == CurStep
                  step_result == Last(wf_cur'.results)[2].result
                  context == Bound(step, wf_cur.context, step_result)
              IN  /\ Len(wf_cur'.results) = Len(wf_cur.results) + 1
                  /\ Last(wf_cur'.results)[2].step = Num(wf_cur.i)
                  /\ wf_cur'.context = context
                  /\ ~HasCondition(step) => wf_cur'.i = wf_cur.i + 1
                  /\ HasCondition(step) =>
                        /\ step[2]["condition"][2].operator = S("equals")
                        /\ Stopped' <=> EqualsFalse(step[2]["condition"], context)
                  /\ Stopped' => wf_cur'.i = wf_cur.i
                  /\ wf_cur'.i = wf_cur.i + 1 =>
                        wf_pc' = IF wf_cur.i < Len(wf_cur.steps) THEN "steps" ELSE "finish"
        /\ (Stopped /\ wf_cur' # wf_cur) =>
              /\ Returns
              /\ wf_ret'[2].status = S("completed")
              /\ wf_ret'[2].steps_executed = Num(wf_cur.i)
              /\ Len(wf_ret'[2].results[2]) = wf_cur.i
              /\ \A n \in ExecRows(executions', wf_cur.exec_id) :
                    /\ executions'[n].status = S("completed")
                    /\ executions'[n].result = JsonDumps(List(wf_cur.results))
      ]_vars

\* witness of C17: the condition of the fourth of five steps named a variable that
\* is absent from the context, and the call returned 'completed' with four steps
C17_Witness ==
    /\ wf_pc = "idle"
    /\ wf_ret[1] = "dict"
    /\ "results" \in DOMAIN wf_ret[2]
    /\ wf_ret[2].status = S("completed")
    /\ wf_ret[2].steps_executed = Num(4)
    /\ wf_ret[2].results[2][4][2].result = Dict([logged |-> S("checkpoint")])
    /\ \E id \in DOMAIN workflows : Len(StoredSteps(id)) = 5

\* a condition on the step's own output_var was true, and the next step ran
C17_OwnOutput ==
    /\ wf_pc = "idle"
    /\ wf_ret[1] = "dict"
    /\ "results" \in DOMAIN wf_ret[2]
    /\ Len(wf_ret[2].results[2]) = 5
    /\ wf_ret[2].results[2][1][2].result = S("admin")

\* the whole value is the string '{{name}}'
IsWholePlaceholder(value) ==
    /\ IsStr(value)
    /\ Len(value[2]) >= 4
    /\ <<value[2][1], value[2][2]>> = <<"{", "{">>
    /\ <<value[2][Len(value[2]) - 1], value[2][Len(value[2])]>> = <<"}", "}">>

\* the name between the braces
NameOf(value) == Str([n \in 1..(Len(value[2]) - 4) |-> value[2][n + 2]])

\* the params an action is passed according to the rule of substitution
Substituted(params, context) ==
    [key \in DOMAIN params |->
        IF IsWholePlaceholder(params[key]) /\ NameOf(params[key]) \in DOMAIN context
        THEN context[NameOf(params[key])]
        ELSE params[key]]

\* C18: the action of a step is passed the params of the step with each value
\* that is, as a whole, the string '{{name}}' replaced by the value of name in the
\* execution context (the caller's context and the output_var bindings of the
\* earlier steps of the execution); a placeholder whose name is not in the
\* context, be it a key of the variable store, and every other value are passed
\* unchanged.
C18_Placeholders ==
    [][ (Stepping /\ wf_pc' # "idle") =>
            Last(wf_cur'.results)[2].result
              = ActionResult(CurStep[2]["action"],
                             Substituted(CurStep[2]["params"][2], wf_cur.context),
                             variables)
      ]_vars

\* witness of C18: one execution stored the caller's user under k2 and the result
\* of an earlier step under k1, and the next one logged the text '{{k2}}' as it is
C18_Witness ==
    /\ wf_pc = "idle"
    /\ wf_ret[1] = "dict"
    /\ "results" \in DOMAIN wf_ret[2]
    /\ Len(wf_ret[2].results[2]) = 5
    /\ wf_ret[2].results[2][3][2].action = S("log")
    /\ wf_ret[2].results[2][3][2].result
          = Dict([logged |-> Str(<<"{", "{", "k2", "}", "}">>)])
    /\ wf_ret[2].results[2][4][2].result
          = Dict([key |-> S("k3"), value |-> Str(<<"id=", "{", "{", "user", "}", "}">>)])
    /\ {S("k1"), S("k2")} \subseteq DOMAIN variables
    /\ JsonLoads(variables[S("k2")].value) = S("admin")
    /\ JsonLoads(variables[S("k1")].value) = Dict([key |-> S("k1"), value |-> Num(1)])

\* the actions _execute_step has a branch for
KnownActions ==
    {S("http_request"), S("set_variable"), S("get_variable"), S("delay"), S("log")}

\* the step at position n of the results is a step of an unknown action
UnknownAt(results, n) == results[n][2].action \notin KnownActions

\* C19: a step whose action is not one of http_request, set_variable,
\* get_variable, delay, log does not fail the execution: its result is
\* {"error": "Unknown action: <action>"}, the loop goes on to the step after it,
\* and the execution is returned and recorded as 'completed' (unless another of
\* its steps raises).
C19_UnknownAction ==
    [][ /\ (Stepping /\ "action" \in DOMAIN CurStep[2]
                     /\ CurStep[2]["action"] \notin KnownActions) =>
              /\ wf_pc' # "idle"
              /\ Last(wf_cur'.results)[2].result
                    = Dict([error |-> Str(<<"Unknown action: ">> \o CurStep[2]["action"][2])])
              /\ ~HasCondition(CurStep) =>
                    /\ wf_cur'.i = wf_cur.i + 1
                    /\ wf_cur.i < Len(wf_cur.steps) => wf_pc' = "steps"
        /\ (/\ Returns
            /\ PendingException = None
            /\ \E n \in DOMAIN wf_cur.results : UnknownAt(wf_cur.results, n)) =>
              /\ wf_ret'[2].status = S("completed")
              /\ \A n \in ExecRows(executions', wf_cur.exec_id) :
                    executions'[n].status = S("completed")
      ]_vars

\* witness of C19: the second of five steps had the unknown action send_email, the
\* three steps after it ran and the call returned 'completed'
C19_Witness ==
    /\ wf_pc = "idle"
    /\ wf_ret[1] = "dict"
    /\ "results" \in DOMAIN wf_ret[2]
    /\ wf_ret[2].status = S("completed")
    /\ Len(wf_ret[2].results[2]) = 5
    /\ wf_ret[2].results[2][2][2].result
          = Dict([error |-> Str(<<"Unknown action: ", "send_email">>)])
    /\ \E n \in DOMAIN executions :
          /\ executions[n].id = wf_ret[2].execution_id
          /\ executions[n].status = S("completed")

\* the keys of the variable store the workflows use, and one they never set
StoreKeys == {S("k1"), S("k2"), S("k3"), S("k4")}

\* what a get_variable step with this key returns from the store
Stored(store, key) == _get_variable([key |-> key], store)

\* the loop runs a set_variable step that writes this key
SetsKey(key) ==
    /\ Stepping
    /\ CurStep[2]["action"] = S("set_variable")
    /\ CurStep[2]["params"][2]["key"] = key

\* C20: the variable store is a last-write-wins map that outlives executions: a
\* key that was never set reads None; a set_variable step with key k and value v
\* makes k read v and leaves every other key as it reads; nothing else changes
\* what a key reads, be it the end of an execution or a new workflow; and a
\* get_variable step with key k returns what k reads.
C20_VariableStore ==
    /\ \A key \in StoreKeys : Stored(variables, key) = None
    /\ [][ /\ \A key \in StoreKeys :
                 Stored(variables', key)
                   = IF SetsKey(key)
                     THEN Substituted(CurStep[2]["params"][2], wf_cur.context)["value"]
                     ELSE Stored(variables, key)
           /\ (Stepping /\ CurStep[2]["action"] = S("get_variable")) =>
                 Last(wf_cur'.results)[2].result
                    = Stored(variables, CurStep[2]["params"][2]["key"])
         ]_vars

\* witness of C20: an earlier execution set k1 to 1 and then to a dict and k2 to
\* 'admin'; this one read 'admin' for k2 and the dict for k1, and k4 was never set
C20_Witness ==
    /\ wf_pc = "idle"
    /\ Len(executions) = 2
    /\ wf_ret[1] = "dict"
    /\ "results" \in DOMAIN wf_ret[2]
    /\ Len(wf_ret[2].results[2]) = 5
    /\ wf_ret[2].results[2][1][2].action = S("get_variable")
    /\ wf_ret[2].results[2][1][2].result = S("admin")
    /\ wf_ret[2].results[2][5][2].result = Dict([key |-> S("k1"), value |-> Num(1)])
    /\ Stored(variables, S("k4")) = None

-----------------------------------------------------------------------------
(* TaskAutomationServer: create_workflow and list_workflows *)

\* the entry list_workflows makes of a row
WorkflowEntry(row) ==
    Dict([id |-> row.id, name |-> row.name, description |-> row.description,
          trigger |-> row.trigger_type, enabled |-> Bool(row.enabled # 0)])

\* SELECT ... FROM workflows has no ORDER BY: the rows come in any order
RowOrders(table) ==
    {order \in [1..Cardinality(DOMAIN table) -> DOMAIN table] :
        \A a, b \in DOMAIN order : a # b => order[a] # order[b]}

\* list_workflows(args)
list_workflows(order) ==
    /\ wf_pc = "idle"
    /\ wf_ret' = Dict([workflows |-> List([n \in DOMAIN order |->
                                              WorkflowEntry(workflows[order[n]])]),
                       count |-> Num(Len(order))])
    /\ UNCHANGED <<workflows, executions, variables, now, wf_pc, wf_cur, notWf>>

\* the names create_workflow is called with: two of them have the same digest
CatalogNames == {S("daily"), CollidingNameA, CollidingNameB}

\* the step lists create_workflow is called with
CatalogPrograms == { List(<<StepLog>>), List(<<StepLog, StepSet>>) }

CatalogNext ==
    \/ \E name \in CatalogNames, steps \in CatalogPrograms :
          create_workflow([name |-> name, trigger_type |-> S("manual"), steps |-> steps])
    \/ \E order \in RowOrders(workflows) : list_workflows(order)
    \/ Tick

(* Properties of create_workflow and list_workflows *)

\* the rows of the workflows table with this name
NamedRows(table, name) == {table[id] : id \in {i \in DOMAIN table : table[i].name = name}}

\* create_workflow returns in this step
Creates ==
    /\ wf_ret'[1] = "dict"
    /\ "workflow_id" \in DOMAIN wf_ret'[2]
    /\ <<workflows, wf_ret>> # <<workflows', wf_ret'>>

\* list_workflows returns in this step
Lists == wf_ret'[1] = "dict" /\ "workflows" \in DOMAIN wf_ret'[2]

\* C21: create_workflow is keyed by name: a call leaves one enabled workflow of
\* its name, under the workflow_id returned (the id a workflow of that name had
\* before), and leaves the workflows of every other name as they were, so that
\* list_workflows reports one entry for each name created.
C21_KeyedByName ==
    [][ /\ Creates =>
              LET name == wf_ret'[2].name
              IN  /\ \A row \in NamedRows(workflows, name) : row.id = wf_ret'[2].workflow_id
                  /\ Cardinality(NamedRows(workflows', name)) = 1
                  /\ \A row \in NamedRows(workflows', name) :
                        /\ row.id = wf_ret'[2].workflow_id
                        /\ row.enabled = 1
                        /\ Len(JsonLoads(row.steps)[2]) = wf_ret'[2].steps[2]
                  /\ \A other \in CatalogNames \ {name} :
                        NamedRows(workflows', other) = NamedRows(workflows, other)
        /\ Lists =>
              \A name \in CatalogNames :
                 Cardinality({n \in DOMAIN wf_ret'[2].workflows[2] :
                                 wf_ret'[2].workflows[2][n][2].name = name})
                   = Cardinality(NamedRows(workflows, name))
      ]_vars

-----------------------------------------------------------------------------
(* Specifications *)

Init ==
    /\ WfInit
    /\ DsInit
    /\ RpcInit
    /\ IoInit
    /\ ExInit
    /\ MemInit
    /\ PolInit
    /\ GwInit
    /\ HistInit
    /\ LamInit
    /\ EpInit
    /\ KiroInit
    /\ EksInit
    /\ MaInit

SpecWorkflow == Init /\ [][WfNext]_vars

SpecHistory == Init /\ [][HistoryNext]_vars

SpecCatalog == Init /\ [][CatalogNext]_vars

SpecStore == Init /\ [][StoreNext]_vars

SpecMultiAgent == Init /\ [][MaNext]_vars

SpecKiro == Init /\ [][KiroNext]_vars

SpecDispatch == Init /\ [][DsNext]_vars

SpecRpc == Init /\ [][RpcNext]_vars

SpecStdio == Init /\ [][IoNext]_vars

SpecMemory == Init /\ [][MemNext]_vars

SpecGateway == Init /\ [][GwNext]_vars

\* the policy agent is called once, with any payload
InitPolicy ==
    /\ WfInit /\ DsInit /\ RpcInit /\ IoInit /\ ExInit /\ MemInit /\ PolInputs /\ GwInit /\ HistInit /\ LamInit /\ EpInit /\ KiroInit /\ EksInit /\ MaInit

SpecPolicy == InitPolicy /\ [][PolNext]_vars

\* lambda_handler is called once, with any event
InitLambda ==
    /\ WfInit /\ DsInit /\ RpcInit /\ IoInit /\ ExInit /\ MemInit /\ PolInit /\ GwInit /\ HistInit /\ LamInputs /\ EpInit /\ KiroInit /\ EksInit /\ MaInit

SpecLambda == InitLambda /\ [][LamNext]_vars

\* one entrypoint is called once, with any payload
InitEntrypoints ==
    /\ WfInit /\ DsInit /\ RpcInit /\ IoInit /\ ExInit /\ MemInit /\ PolInit /\ GwInit /\ HistInit /\ LamInit /\ EpInputs /\ KiroInit /\ EksInit /\ MaInit

SpecEntrypoints == InitEntrypoints /\ [][EpNext]_vars

\* execute_task is called once, with any task and context
InitEks ==
    /\ WfInit /\ DsInit /\ RpcInit /\ IoInit /\ ExInit /\ MemInit /\ PolInit /\ GwInit /\ HistInit /\ LamInit /\ EpInit /\ KiroInit /\ EksInputs /\ MaInit

SpecEks == InitEks /\ [][EksNext]_vars

\* the example server's call_tool is called once, with any name and arguments
InitExample ==
    /\ WfInit /\ DsInit /\ RpcInit /\ IoInit /\ ExInputs /\ MemInit /\ PolInit /\ GwInit /\ HistInit /\ LamInit /\ EpInit /\ KiroInit /\ EksInit /\ MaInit

SpecExample == InitExample /\ [][ExNext]_vars

====
